---- MODULE Spec2Model ----
(***************************************************************************)
(* A model of the paynowbackend payment-orchestration server: the M-Pesa   *)
(* STK callback handler (server.js), the Paystack / Stripe / PayPal        *)
(* webhook handlers, the customer aggregate upsert (invoiceService.js)     *)
(* and payment initiation with merchant credential lookup.                 *)
(*                                                                         *)
(* Every await of a handler is a suspension point: a handler is a slot     *)
(* with a program counter, and one action is the code between two awaits.  *)
(* A call into the document store, the file storage, the SMS provider or   *)
(* the mail transport may throw; that is a nondeterministic outcome.       *)
(***************************************************************************)
EXTENDS Integers, Sequences, FiniteSets, TLC

(***************************************************************************)
(* Bounds of the model.                                                    *)
(***************************************************************************)
\* Callback and webhook deliveries handled in one behaviour.
MaxDeliveries == 2

\* Concurrent handler slots of the M-Pesa callback route.
Slots == {1, 2}

\* Transaction ids: t1 has a document, t2 never had one.
TxIds == {"t1", "t2"}

\* The amount of transaction t1.
TxAmount == 100

TerminalStatuses == {"success", "failed", "canceled"}

(***************************************************************************)
(* Callback payloads.  A JSON result code keeps its type: the number 0 and *)
(* the string "0" are different values under ===.                          *)
(***************************************************************************)
Num(n) == [t |-> "number", v |-> n]
Str(n) == [t |-> "string", v |-> n]
Undef == [t |-> "undefined", v |-> 0]

ResultCodes == {Num(0), Str(0), Num(1), Num(1032), Num(4999), Undef}

\* ResultDesc the gateway sends with a code ("" when it sends none).
GatewayResultDesc(rc) ==
  IF rc = Num(1032) THEN "Request cancelled by user"
  ELSE IF rc = Num(4999) THEN "The transaction is still under processing"
  ELSE IF rc = Num(1) THEN "The balance is insufficient"
  ELSE ""

\* shape: "noBody" has no Body, "noStk" has a Body without stkCallback,
\* "full" has Body.stkCallback with ResultCode rc and, when receipt is not
\* "none", a CallbackMetadata item MpesaReceiptNumber with that value.
Payloads ==
  {[shape |-> "noBody", rc |-> Undef, receipt |-> "none"],
   [shape |-> "noStk", rc |-> Undef, receipt |-> "none"]}
  \cup {[shape |-> "full", rc |-> c, receipt |-> "none"] : c \in ResultCodes}
  \cup {[shape |-> "full", rc |-> Num(0), receipt |-> R] : R \in {"R1", "R2"}}
  \cup {[shape |-> "full", rc |-> Str(0), receipt |-> "R1"]}

VARIABLES
  tx,          \* the transactions collection: id -> document
  cust,        \* the customer document of the payer of t1
  req,         \* the handler slots of POST /callback/:orderId
  effects,     \* per transaction: side effects attempted so far
  delivered,   \* deliveries handled so far (also the server clock)
  overlapped,  \* a callback started while another one was in progress
  faulted,     \* a side effect (customer, invoice, SMS, email) has failed
  whResp,      \* the last webhook event handled and its HTTP response
  initReq,     \* the last payment initiation request
  initResp,    \* its HTTP response
  outbound,    \* the calls it made to the gateway, in order
  links,       \* the paymentLinks collection: id -> document
  now,         \* the clock, in hours
  smsLog,      \* per link: the reminder SMS sent, in order
  reminderDocs,\* the reminders collection: link and type of its documents
  sweep,       \* the runs of checkUnpaidLinks in progress
  manual,      \* the call of sendManualReminder in progress or finished
  started,     \* runs of checkUnpaidLinks and calls of sendManualReminder so far
  qry,         \* the last POST /query request and its response
  methods,     \* the paymentMethods and preferredPaymentMethod of a customer
  order,       \* the document o1 of the orders collection
  ordReq,      \* the POST /update-order-status request in progress or finished
  callLog,     \* per call of /update-order-status: its status, what it sent
  val          \* the POST /validation/:orderId request in progress or finished

vars == <<tx, cust, req, effects, delivered, overlapped, faulted, whResp,
          initReq, initResp, outbound,
          links, now, smsLog, reminderDocs, sweep, manual, started, qry, methods,
          order, ordReq, callLog, val>>

\* The state of the reminder service.
reminderVars == <<links, now, smsLog, reminderDocs, sweep, manual, started>>

\* What the callback and webhook handlers leave alone, and what the
\* initiation routes leave alone.
initVars == <<initReq, initResp, outbound>>
reconcileVars == <<tx, cust, req, effects, delivered, overlapped, faulted, whResp>>
queryVars == <<qry>>
methodVars == <<methods>>
orderVars == <<order, ordReq, callLog, val>>

NoDoc ==
  [exists |-> FALSE, status |-> "none", mpesaReceiptNumber |-> "null",
   resultDescription |-> "none", transID |-> "none", gatewayRef |-> "none",
   completedAt |-> 0, hasInvoice |-> FALSE,
   payerEmail |-> FALSE, validationStatus |-> "none"]

PendingDoc(email) ==
  [NoDoc EXCEPT !.exists = TRUE, !.status = "pending", !.payerEmail = email]

NoEffects == [dispatch |-> 0, invoice |-> 0, sms |-> 0, email |-> 0]

NoWebhook == [gateway |-> "none", event |-> "none", sigOk |-> FALSE,
              genuine |-> FALSE, code |-> "none"]

NoInitReq == [pc |-> "idle", route |-> "none", phone |-> <<>>,
              amount |-> [nan |-> FALSE, v |-> 0], normalized |-> <<>>,
              settings |-> "none", creds |-> "none", token |-> "none"]
NoInitResp == [code |-> "none", error |-> "none"]

IdleReq ==
  [pc |-> "idle", tx |-> "t1", body |-> [shape |-> "noBody", rc |-> Undef, receipt |-> "none"],
   newStatus |-> "none", receipt |-> "null", resultDesc |-> "none",
   err |-> "none", sawStatus |-> "none", caller |-> "none",
   snapExists |-> FALSE, snapTT |-> 0, snapTS |-> 0,
   resp |-> "none"]

\* A timestamp field of a document: absent, or a time in hours.
NoTime == [set |-> FALSE, at |-> 0]
Time(t) == [set |-> TRUE, at |-> t]

LinkIds == {"l1", "l2"}
SweepIds == {1, 2}

\* A paymentLinks document.
NoLink ==
  [exists |-> FALSE, status |-> "none", paid |-> FALSE, expiryDate |-> NoTime,
   recipientPhone |-> FALSE, createdAt |-> NoTime, lastReminderSent |-> NoTime,
   lastReminderType |-> "none", reminders |-> <<>>]

\* The link l1 of every behaviour: active, unpaid, with a phone number and
\* no expiry date, created 100 hours before the start.
EligibleLink ==
  [NoLink EXCEPT !.exists = TRUE, !.status = "active", !.recipientPhone = TRUE,
                 !.createdAt = Time(0 - 100)]

\* A run of checkUnpaidLinks: snap is the query result, todo the documents
\* of it still to visit, visited the documents visited, failed those whose
\* reminder threw, sent those whose send resolved, processed the
\* processedLinks array; closed (history) the links that were paid or
\* expired when the run started.
IdleSweep ==
  [pc |-> "idle", closed |-> {}, snap |-> [l \in LinkIds |-> NoLink], todo |-> <<>>,
   cur |-> "none", tier |-> "none", visited |-> {}, failed |-> {},
   sent |-> <<>>, processed |-> <<>>]

\* A call of sendManualReminder.
IdleManual ==
  [pc |-> "idle", linkId |-> "none", tier |-> "none", snap |-> NoLink,
   success |-> "none", code |-> "none"]

NoQueryBody ==
  [ResponseCode |-> "none", ResultCode |-> Undef, flag |-> "none"]

NoQuery ==
  [pc |-> "idle", queryCode |-> "none", environment |-> "none",
   reply |-> [kind |-> "none", rc |-> Undef, errorCode |-> "none"],
   code |-> "none", body |-> NoQueryBody]

\* An orders document.
NoOrder ==
  [exists |-> FALSE, status |-> "none", notificationSent |-> FALSE,
   lastNotificationStatus |-> "none", notificationError |-> "none",
   notificationHistory |-> <<>>, validationStatus |-> "none"]

\* A POST /update-order-status request: orderData is the document as the
\* handler read it, failed the notification that threw, err what
\* notificationError.message evaluates to, storeOk (history) that no
\* document-store call of the request has failed.
NoOrdReq ==
  [pc |-> "idle", orderId |-> "none", newStatus |-> "none",
   orderData |-> NoOrder, failed |-> "none", err |-> "none", storeOk |-> TRUE,
   code |-> "none"]

\* A customer document with no paymentMethods yet.
NoMethods == [stats |-> <<>>, preferred |-> "none"]

\* The state after construction, but for the payment links and the clock.
InitOther ==
  /\ \E email \in BOOLEAN :
       tx = [t \in TxIds |-> IF t = "t1" THEN PendingDoc(email) ELSE NoDoc]
  /\ cust = [exists |-> FALSE, totalTransactions |-> 0, totalSpent |-> 0]
  /\ req = [r \in Slots |-> IdleReq]
  /\ effects = [t \in TxIds |-> NoEffects]
  /\ delivered = 0
  /\ overlapped = FALSE
  /\ faulted = FALSE
  /\ whResp = NoWebhook
  /\ initReq = NoInitReq
  /\ initResp = NoInitResp
  /\ outbound = <<>>
  /\ smsLog = [l \in LinkIds |-> <<>>]
  /\ reminderDocs = {}
  /\ sweep = [s \in SweepIds |-> IdleSweep]
  /\ manual = IdleManual
  /\ started = 0
  /\ qry = NoQuery
  /\ methods = NoMethods
  /\ order = [NoOrder EXCEPT !.exists = TRUE, !.status = "pending"]
  /\ ordReq = NoOrdReq
  /\ callLog = <<>>
  /\ val = [pc |-> "idle", orderId |-> "none", resp |-> "none"]

Init ==
  /\ InitOther
  /\ links = [l \in LinkIds |-> IF l = "l1" THEN EligibleLink ELSE NoLink]
  /\ now = 0

InProgress(r) == req[r].pc \notin {"idle", "done"}

\* A request takes the lowest slot never used, or else the lowest slot whose
\* request has been answered (slots are interchangeable).
FreeSlot(r) ==
  LET want == IF \E q \in Slots : req[q].pc = "idle" THEN "idle" ELSE "done"
  IN  req[r].pc = want /\ \A q \in Slots : q < r => req[q].pc # want

\* The handler has answered: the slot keeps the payload it parsed, what it
\* computed and how it ended, and drops the rest of its locals.
Finished(q, resp) ==
  [IdleReq EXCEPT !.pc = "done", !.tx = q.tx, !.body = q.body,
                  !.newStatus = q.newStatus,
                  !.receipt = q.receipt, !.err = q.err,
                  !.sawStatus = q.sawStatus, !.resp = resp]

(***************************************************************************)
(* POST /callback/:orderId                                                 *)
(***************************************************************************)
\* The acknowledgement of the try block and of the catch block.
CallbackAck == "200:ResponseCode=0"
\* (mutant) the catch block answers like the global error handler.
CallbackCatchError == "500:ResponseCode=1"
CallbackCatchAck == "200:ResponseCode=0"

\* Lines 490-506: the status, receipt and description computed from the
\* payload; "TypeError" when reading Body.stkCallback.ResultCode throws.
ParseThrows(body) == body.shape \in {"noBody", "noStk"}

CallbackNewStatus(body) ==
  IF body.rc = Num(0) THEN "success" ELSE "failed"

\* (mutant) the metadata items are searched for the wrong item name.
CallbackReceiptWrongItem(body) == "null"

CallbackReceipt(body) ==
  IF body.rc = Num(0) /\ body.receipt # "none" THEN body.receipt ELSE "null"

CallbackResultDesc(body) ==
  IF body.rc = Num(0) THEN "Payment successful"
  ELSE IF GatewayResultDesc(body.rc) # "" THEN GatewayResultDesc(body.rc)
  ELSE "Payment failed"

\* (mutant) a callback for an unknown id creates the transaction document.
CallbackGetDocCreates(r, t, body) ==
  /\ FreeSlot(r)
  /\ delivered < MaxDeliveries
  /\ delivered' = delivered + 1
  /\ overlapped' = (overlapped \/ \E q \in Slots \ {r} : InProgress(q))
  /\ \/ \* getDoc throws: the catch block acknowledges
        /\ req' = [req EXCEPT ![r] =
                     Finished([IdleReq EXCEPT !.tx = t, !.err = "getDoc"],
                              CallbackCatchAck)]
        /\ UNCHANGED tx
     \/ \* no such transaction: one is created, and acknowledged
        /\ ~tx[t].exists
        /\ req' = [req EXCEPT ![r] =
                     Finished([IdleReq EXCEPT !.tx = t], CallbackAck)]
        /\ tx' = [tx EXCEPT ![t] = [NoDoc EXCEPT !.exists = TRUE,
                                              !.status = "failed"]]
     \/ \* reading the result code throws a TypeError
        /\ tx[t].exists
        /\ ParseThrows(body)
        /\ req' = [req EXCEPT ![r] =
                     Finished([IdleReq EXCEPT !.tx = t, !.body = body,
                                 !.err = "parse", !.sawStatus = tx[t].status],
                              CallbackCatchAck)]
        /\ UNCHANGED tx
     \/ /\ tx[t].exists
        /\ ~ParseThrows(body)
        /\ req' = [req EXCEPT ![r] = [IdleReq EXCEPT !.pc = "update", !.tx = t,
                     !.body = body, !.sawStatus = tx[t].status,
                     !.newStatus = CallbackNewStatus(body),
                     !.receipt = CallbackReceipt(body),
                     !.resultDesc = CallbackResultDesc(body)]]
        /\ UNCHANGED tx
  /\ UNCHANGED <<cust, effects, faulted, whResp, initVars, reminderVars, queryVars, methodVars, orderVars>>

\* Lines 484-543: the request arrives, the transaction document is read and
\* the payload is parsed.
CallbackGetDoc(r, t, body) ==
  /\ FreeSlot(r)
  /\ delivered < MaxDeliveries
  /\ delivered' = delivered + 1
  /\ overlapped' = (overlapped \/ \E q \in Slots \ {r} : InProgress(q))
  /\ \/ \* getDoc throws: the catch block acknowledges
        req' = [req EXCEPT ![r] =
                  Finished([IdleReq EXCEPT !.tx = t, !.err = "getDoc"],
                           CallbackCatchAck)]
     \/ \* no such transaction: nothing but the acknowledgement
        /\ ~tx[t].exists
        /\ req' = [req EXCEPT ![r] =
                     Finished([IdleReq EXCEPT !.tx = t], CallbackAck)]
     \/ \* reading the result code throws a TypeError
        /\ tx[t].exists
        /\ ParseThrows(body)
        /\ req' = [req EXCEPT ![r] =
                     Finished([IdleReq EXCEPT !.tx = t, !.body = body,
                                 !.err = "parse", !.sawStatus = tx[t].status],
                              CallbackCatchAck)]
     \/ /\ tx[t].exists
        /\ ~ParseThrows(body)
        /\ req' = [req EXCEPT ![r] = [IdleReq EXCEPT !.pc = "update", !.tx = t,
                     !.body = body, !.sawStatus = tx[t].status,
                     !.newStatus = CallbackNewStatus(body),
                     !.receipt = CallbackReceipt(body),
                     !.resultDesc = CallbackResultDesc(body)]]
  /\ UNCHANGED <<tx, cust, effects, faulted, whResp, initVars, reminderVars, queryVars, methodVars, orderVars>>

\* (mutant) the update writes the status alone.
CallbackUpdateStatusOnly(d, q) == [d EXCEPT !.status = q.newStatus]

\* Lines 545-566: one updateDoc writes status, receipt, description and the
\* callbackData snapshot, whatever status the document has now.
CallbackUpdateFields(d, q) ==
  [d EXCEPT !.status = q.newStatus,
            !.mpesaReceiptNumber = q.receipt,
            !.resultDescription = q.resultDesc,
            !.transID = IF q.receipt = "null" THEN "" ELSE q.receipt]

\* (mutant) the side effects run whatever the computed status.
RunsSideEffectsAlways(q) == TRUE

\* Line 569 and line 593: the side effects run when the computed status is
\* success.
RunsSideEffects(q) == q.newStatus = "success"

CallbackUpdateDoc(r) ==
  /\ req[r].pc = "update"
  /\ \/ \* updateDoc throws: the catch block acknowledges
        /\ req' = [req EXCEPT ![r] =
                     Finished([req[r] EXCEPT !.err = "updateDoc"],
                              CallbackCatchAck)]
        /\ UNCHANGED <<tx, effects>>
     \/ /\ tx' = [tx EXCEPT ![req[r].tx] =
                    CallbackUpdateFields(tx[req[r].tx], req[r])]
        /\ IF RunsSideEffects(req[r])
             THEN /\ req' = [req EXCEPT ![r].pc = "custRead",
                                        ![r].caller = "callback"]
                  /\ effects' = [effects EXCEPT ![req[r].tx].dispatch = @ + 1]
             ELSE /\ req' = [req EXCEPT ![r] = Finished(req[r], CallbackAck)]
                  /\ UNCHANGED effects
  /\ UNCHANGED <<cust, delivered, overlapped, faulted, whResp, initVars, reminderVars, queryVars, methodVars, orderVars>>

(***************************************************************************)
(* storeCustomerInformation (invoiceService.js): a read of the customer    *)
(* document, then a merge write of the counters computed from that read.   *)
(* It swallows every error.                                                *)
(***************************************************************************)
\* Where the caller of storeCustomerInformation continues.
AfterCustomer(q) == IF q.caller = "callback" THEN "invoice" ELSE "notify"

StoreCustomerInformationRead(r) ==
  /\ req[r].pc = "custRead"
  /\ \/ \* getDoc throws: logged, nothing stored
        /\ req' = [req EXCEPT ![r].pc = AfterCustomer(req[r])]
        /\ faulted' = TRUE
     \/ /\ req' = [req EXCEPT ![r].pc = "custWrite",
                              ![r].snapExists = cust.exists,
                              ![r].snapTT = cust.totalTransactions,
                              ![r].snapTS = cust.totalSpent]
        /\ UNCHANGED faulted
  /\ UNCHANGED <<tx, cust, effects, delivered, overlapped, whResp, initVars, reminderVars, queryVars, methodVars, orderVars>>

\* Lines 586-597: the counters written, from the document as it was read.
CustomerData(q) ==
  [exists |-> TRUE,
   totalTransactions |-> IF q.snapExists THEN q.snapTT + 1 ELSE 1,
   totalSpent |-> IF q.snapExists THEN q.snapTS + TxAmount ELSE TxAmount]

StoreCustomerInformationWrite(r) ==
  /\ req[r].pc = "custWrite"
  /\ \/ \* a setDoc throws: logged, the customer document is not written
        /\ req' = [req EXCEPT ![r].pc = AfterCustomer(req[r]),
                              ![r].snapExists = FALSE, ![r].snapTT = 0,
                              ![r].snapTS = 0]
        /\ faulted' = TRUE
        /\ UNCHANGED cust
     \/ /\ cust' = CustomerData(req[r])
        /\ req' = [req EXCEPT ![r].pc = AfterCustomer(req[r]),
                              ![r].snapExists = FALSE, ![r].snapTT = 0,
                              ![r].snapTS = 0]
        /\ UNCHANGED faulted
  /\ UNCHANGED <<tx, effects, delivered, overlapped, whResp, initVars, reminderVars, queryVars, methodVars, orderVars>>

(***************************************************************************)
(* processTransactionInvoice -> generateInvoicePDF -> storeInvoiceReference*)
(***************************************************************************)
ProcessTransactionInvoice(r) ==
  /\ req[r].pc = "invoice"
  /\ effects' = [effects EXCEPT ![req[r].tx].invoice = @ + 1]
  /\ \/ \* upload, signed URL or a setDoc throws: caught at server.js:586
        /\ req' = [req EXCEPT ![r].pc = "notify"]
        /\ faulted' = TRUE
        /\ UNCHANGED tx
     \/ \* the invoice is stored; storeInvoiceReference upserts the customer
        /\ tx' = [tx EXCEPT ![req[r].tx].hasInvoice = TRUE]
        /\ req' = [req EXCEPT ![r].pc = "custRead", ![r].caller = "invoice"]
        /\ UNCHANGED faulted
  /\ UNCHANGED <<cust, delivered, overlapped, whResp, initVars, reminderVars, queryVars, methodVars, orderVars>>

(***************************************************************************)
(* Lines 593-635: SMS, then email when the payer has one, then the         *)
(* acknowledgement.  Each send has its own try/catch.                      *)
(***************************************************************************)
\* (mutant) the SMS and the email share one try block: a failed SMS skips
\* the email.
CallbackNotifyOneTry(r) ==
  /\ req[r].pc = "notify"
  /\ \E smsOk \in BOOLEAN, emailOk \in BOOLEAN :
       /\ effects' = [effects EXCEPT
            ![req[r].tx].sms = @ + 1,
            ![req[r].tx].email =
               IF smsOk /\ tx[req[r].tx].payerEmail THEN @ + 1 ELSE @]
       /\ req' = [req EXCEPT ![r] = Finished(req[r], CallbackAck)]
       /\ faulted' = (faulted \/ ~smsOk \/ (tx[req[r].tx].payerEmail /\ ~emailOk))
  /\ UNCHANGED <<tx, cust, delivered, overlapped, whResp, initVars, reminderVars, queryVars, methodVars, orderVars>>

CallbackNotify(r) ==
  /\ req[r].pc = "notify"
  /\ \E smsOk \in BOOLEAN, emailOk \in BOOLEAN :
       /\ effects' = [effects EXCEPT
            ![req[r].tx].sms = @ + 1,
            ![req[r].tx].email = IF tx[req[r].tx].payerEmail THEN @ + 1 ELSE @]
       /\ req' = [req EXCEPT ![r] = Finished(req[r], CallbackAck)]
       /\ faulted' = (faulted \/ ~smsOk \/ (tx[req[r].tx].payerEmail /\ ~emailOk))
  /\ UNCHANGED <<tx, cust, delivered, overlapped, whResp, initVars, reminderVars, queryVars, methodVars, orderVars>>

Callback ==
  \/ \E r \in Slots, t \in TxIds, body \in Payloads : CallbackGetDoc(r, t, body)
  \/ \E r \in Slots :
       \/ CallbackUpdateDoc(r)
       \/ StoreCustomerInformationRead(r)
       \/ StoreCustomerInformationWrite(r)
       \/ ProcessTransactionInvoice(r)
       \/ CallbackNotify(r)

\* The steps of a callback request in slot r after its arrival.
CallbackStep(r) ==
  \/ CallbackUpdateDoc(r)
  \/ StoreCustomerInformationRead(r)
  \/ StoreCustomerInformationWrite(r)
  \/ ProcessTransactionInvoice(r)
  \/ CallbackNotify(r)

\* smsService.js 39-66: the promise of sendSMS settles on the 'end' of the
\* response or the 'error' of the request and sets no timeout, and the
\* document-store calls of the customer upsert and of the invoice are awaited
\* without one (server.js 581, 584, 602): when the other side never
\* responds, the handler stays at that await.
SideEffectNeverResponds(r) ==
  /\ req[r].pc \in {"custRead", "custWrite", "invoice", "notify"}
  /\ req' = [req EXCEPT ![r].pc = "pending"]
  /\ UNCHANGED <<tx, cust, effects, delivered, overlapped, faulted, whResp, initVars, reminderVars, queryVars, methodVars, orderVars>>

\* The callback route with side-effect providers that may never respond.
CallbackUnresponsive == Callback \/ \E r \in Slots : SideEffectNeverResponds(r)

(***************************************************************************)
(* Webhook handlers of the other gateways.  One action is one handled      *)
(* event; storeOk says whether the document-store calls succeed.           *)
(***************************************************************************)
WebhookTargets == TxIds \cup {"none"}

\* updateDoc rejects when the call fails or the document does not exist.
UpdateDocOk(t, storeOk) == storeOk /\ tx[t].exists

\* handleSuccessfulPayment of paystackService / stripeService /
\* paypalService: updateDoc, then getDoc and the confirmation email; the
\* catch block swallows every error.
HandleSuccessfulPayment(t, ref, storeOk, otherEmail) ==
  IF t # "none" /\ UpdateDocOk(t, storeOk)
    THEN /\ tx' = [tx EXCEPT ![t].status = "success", ![t].gatewayRef = ref,
                             ![t].completedAt = delivered + 1]
         /\ effects' = [effects EXCEPT ![t].email =
                          IF tx[t].payerEmail \/ otherEmail THEN @ + 1 ELSE @]
    ELSE UNCHANGED <<tx, effects>>

\* handleFailedPayment of paystackService / stripeService: updateDoc; the
\* catch block rethrows.  The result is "ok" or "throws".
FailedPaymentResult(t, storeOk) ==
  IF t = "none" \/ UpdateDocOk(t, storeOk) THEN "ok" ELSE "throws"

HandleFailedPayment(t, ref, storeOk) ==
  IF t # "none" /\ UpdateDocOk(t, storeOk)
    THEN tx' = [tx EXCEPT ![t].status = "failed", ![t].gatewayRef = ref]
    ELSE UNCHANGED tx

\* The response of POST /paystack/webhook and POST /paypal/webhook when
\* the event handler returned, and when it threw.
WebhookHandled == "200"
WebhookCatch(result) == IF result = "ok" THEN "200" ELSE "500"

\* A webhook body as sent is compact JSON or the same JSON with extra white
\* space; JSON.stringify of the parsed body is the compact text in both
\* cases.
RawBodies == {"compact", "spaced"}
JsonStringify(raw) == "compact"

\* An x-paystack-signature header: absent, or the HMAC-SHA512 of a text
\* under a key.
NoSignature == [of |-> "none", key |-> "none"]
Signatures ==
  {NoSignature} \cup [of : RawBodies, key : {"env", "other"}]

\* server.js 1308-1310: the digest of the re-serialized body under
\* process.env.PAYSTACK_SECRET_KEY.
PaystackHash(raw) == [of |-> JsonStringify(raw), key |-> "env"]

\* server.js 1312: hash !== req.headers['x-paystack-signature'].
PaystackSignatureOk(raw, sig) == sig = PaystackHash(raw)

\* server.js 1305-1327 with paystackService.handleWebhookEvent.  secretSet:
\* PAYSTACK_SECRET_KEY is in the environment (createHmac throws without a
\* key, and the catch block answers 500).
PaystackWebhook(secretSet, raw, sig, ev, t, storeOk, otherEmail) ==
  LET resp(ok, code) ==
        [gateway |-> "paystack", event |-> ev, sigOk |-> ok,
         genuine |-> secretSet /\ sig = [of |-> raw, key |-> "env"],
         code |-> code]
  IN
  /\ delivered < MaxDeliveries
  /\ delivered' = delivered + 1
  /\ IF ~secretSet
       THEN /\ whResp' = resp(FALSE, "500")
            /\ UNCHANGED <<tx, effects>>
     ELSE IF ~PaystackSignatureOk(raw, sig)
       THEN /\ whResp' = resp(FALSE, "400")
            /\ UNCHANGED <<tx, effects>>
       ELSE CASE ev = "charge.success" ->
                   /\ HandleSuccessfulPayment(t, "PSK", storeOk, otherEmail)
                   /\ whResp' = resp(TRUE, WebhookHandled)
              [] ev = "charge.failed" ->
                   /\ HandleFailedPayment(t, "PSK", storeOk)
                   /\ UNCHANGED effects
                   /\ whResp' = resp(TRUE, WebhookCatch(FailedPaymentResult(t, storeOk)))
              [] OTHER ->
                   /\ UNCHANGED <<tx, effects>>
                   /\ whResp' = resp(TRUE, WebhookHandled)
  /\ UNCHANGED <<cust, req, overlapped, faulted, initVars, reminderVars, queryVars, methodVars, orderVars>>

\* stripeService.handleWebhookEvent (no route of server.js calls it: there
\* is no HTTP response).
StripeWebhookEvent(ev, t, storeOk) ==
  /\ delivered < MaxDeliveries
  /\ delivered' = delivered + 1
  /\ CASE ev = "payment_intent.succeeded" ->
            HandleSuccessfulPayment(t, "STR", storeOk, FALSE)
       [] ev = "payment_intent.payment_failed" ->
            /\ HandleFailedPayment(t, "STR", storeOk)
            /\ UNCHANGED effects
       [] OTHER -> UNCHANGED <<tx, effects>>
  /\ whResp' = [gateway |-> "stripe", event |-> ev, sigOk |-> TRUE, genuine |-> TRUE,
                code |-> "none"]
  /\ UNCHANGED <<cust, req, overlapped, faulted, initVars, reminderVars, queryVars, methodVars, orderVars>>

\* paypalService.verifyWebhookSignature: returns true for every request.
VerifyWebhookSignature(sigValid) == TRUE

\* server.js 1187-1211 with paypalService.handleWebhookEvent.  hasUnits:
\* the event resource carries purchase_units (handleSuccessfulPayment reads
\* purchase_units[0] before the update and throws without it).
PayPalWebhook(sigValid, ev, t, hasUnits, storeOk) ==
  /\ delivered < MaxDeliveries
  /\ delivered' = delivered + 1
  /\ IF ~VerifyWebhookSignature(sigValid)
       THEN /\ whResp' = [gateway |-> "paypal", event |-> ev, sigOk |-> FALSE,
                          genuine |-> sigValid,
                          code |-> "400"]
            /\ UNCHANGED <<tx, effects>>
       ELSE /\ IF ev = "PAYMENT.CAPTURE.COMPLETED" /\ hasUnits
                 THEN HandleSuccessfulPayment(t, "PPL", storeOk, FALSE)
                 ELSE UNCHANGED <<tx, effects>>
            /\ whResp' = [gateway |-> "paypal", event |-> ev, sigOk |-> TRUE,
                          genuine |-> sigValid,
                          code |-> WebhookHandled]
  /\ UNCHANGED <<cust, req, overlapped, faulted, initVars, reminderVars, queryVars, methodVars, orderVars>>

Webhook ==
  \/ \E secretSet \in BOOLEAN, raw \in RawBodies, sig \in Signatures,
        ev \in {"charge.success", "charge.failed", "other"},
        t \in WebhookTargets, storeOk \in BOOLEAN, otherEmail \in BOOLEAN :
       PaystackWebhook(secretSet, raw, sig, ev, t, storeOk, otherEmail)
  \/ \E ev \in {"payment_intent.succeeded", "payment_intent.payment_failed", "other"},
        t \in WebhookTargets, storeOk \in BOOLEAN :
       StripeWebhookEvent(ev, t, storeOk)
  \/ \E sigValid \in BOOLEAN,
        ev \in {"PAYMENT.CAPTURE.COMPLETED", "PAYMENT.CAPTURE.DENIED", "other"},
        t \in WebhookTargets, hasUnits \in BOOLEAN, storeOk \in BOOLEAN :
       PayPalWebhook(sigValid, ev, t, hasUnits, storeOk)

(***************************************************************************)
(* Payment initiation.  A phone number is a sequence of characters.        *)
(***************************************************************************)
Digits == {"0", "1", "2", "3", "4", "5", "6", "7", "8", "9"}

Subscriber == <<"7", "1", "2", "3", "4", "5", "6", "7", "8">>
CountryCode == <<"2", "5", "4">>

PhonePrefixes ==
  {<<>>, <<"+">>, <<"0">>, <<"0", "0">>, <<" ">>, <<"+", "0">>,
   CountryCode, <<"+">> \o CountryCode, <<"0">> \o CountryCode}

PhoneBodies ==
  {<<>>, Subscriber, SubSeq(Subscriber, 1, 8), Subscriber \o <<"9">>,
   <<"7", "1", "2", "a", "4", "5", "6", "7", "8">>,
   <<"7", "1", "2", " ", "3", "4", "5", "6", "7", "8">>}

PhoneInputs == {p \o b : p \in PhonePrefixes, b \in PhoneBodies}

\* String.prototype.trim over the characters of the model.
RECURSIVE TrimLeft(_)
TrimLeft(s) == IF s # <<>> /\ s[1] = " " THEN TrimLeft(Tail(s)) ELSE s

RECURSIVE TrimRight(_)
TrimRight(s) ==
  IF s # <<>> /\ s[Len(s)] = " " THEN TrimRight(SubSeq(s, 1, Len(s) - 1)) ELSE s

Trim(s) == TrimRight(TrimLeft(s))

RECURSIVE DropZeros(_)
DropZeros(s) == IF s # <<>> /\ s[1] = "0" THEN DropZeros(Tail(s)) ELSE s

RECURSIVE RemoveSpaces(_)
RemoveSpaces(s) ==
  IF s = <<>> THEN <<>>
  ELSE IF s[1] = " " THEN RemoveSpaces(Tail(s))
  ELSE <<s[1]>> \o RemoveSpaces(Tail(s))

\* replace(/^\+|^0+|\s+/g, ""): at the start of the string one "+" or else
\* the run of zeros is removed (^ matches at index 0 only); whitespace is
\* removed everywhere.
StripLeading(s) ==
  IF s # <<>> /\ s[1] = "+" THEN RemoveSpaces(Tail(s))
  ELSE RemoveSpaces(DropZeros(s))

StartsWith254(s) == Len(s) >= 3 /\ SubSeq(s, 1, 3) = CountryCode

\* (mutant) the leading "+" is not removed.
NormalizePhoneKeepPlus(phone) ==
  LET p == RemoveSpaces(DropZeros(Trim(phone)))
  IN  IF StartsWith254(p) THEN p ELSE CountryCode \o p

\* server.js 293-299.
NormalizePhone(phone) ==
  LET p == StripLeading(Trim(phone))
  IN  IF StartsWith254(p) THEN p ELSE CountryCode \o p

\* server.js 302: /^254\d{9}$/.
ValidPhone(p) ==
  /\ Len(p) = 12
  /\ StartsWith254(p)
  /\ \A i \in 4..12 : p[i] \in Digits

\* Amounts of a request: a number, or a string that is not a number (isNaN
\* is true of it, and it is truthy).
AmountInputs ==
  {[nan |-> FALSE, v |-> 100], [nan |-> FALSE, v |-> 0],
   [nan |-> FALSE, v |-> 0 - 1], [nan |-> TRUE, v |-> 1]}

\* !amount of the required-field checks.
AmountFalsy(a) == ~a.nan /\ a.v = 0

\* The merchantSettings document as the request finds it: no document, no
\* section for the gateway, the gateway disabled, a secret missing (for
\* M-Pesa: shortCode/passkey, or consumerKey/consumerSecret), or complete.
MpesaSettings == {"noDoc", "noSection", "disabled", "noShortCode", "noConsumerKey", "ok"}
GatewaySettings == {"noDoc", "noSection", "disabled", "noSecret", "ok"}

Response(code, error) == [code |-> code, error |-> error]

Responded(q, code, error) ==
  /\ initReq' = [q EXCEPT !.pc = "done"]
  /\ initResp' = Response(code, error)

\* POST /stkpush, up to the read of the merchant settings (server.js
\* 274-327).
StkPushValidate(phone, amount, hasOrderId, hasMerchant) ==
  LET p == NormalizePhone(phone)
      q == [pc |-> "settings", route |-> "stkpush", phone |-> phone,
            amount |-> amount, normalized |-> <<>>, settings |-> "none",
            creds |-> "none", token |-> "none"]
      n == [q EXCEPT !.normalized = p]
  IN
  /\ initReq.pc = "idle"
  /\ IF phone = <<>> \/ AmountFalsy(amount) \/ ~hasOrderId
       THEN Responded(q, "400", "MissingFields")
     ELSE IF ~ValidPhone(p) THEN Responded(n, "400", "InvalidPhone")
     ELSE IF amount.nan \/ amount.v <= 0 THEN Responded(n, "400", "InvalidAmount")
     ELSE IF ~hasMerchant THEN Responded(n, "400", "MerchantRequired")
     ELSE initReq' = n /\ initResp' = NoInitResp
  /\ outbound' = <<>>
  /\ UNCHANGED <<reconcileVars, reminderVars, queryVars, methodVars, orderVars>>

\* server.js 329-364: the settings are read and checked.
StkPushSettings(settings, storeOk) ==
  LET q == [initReq EXCEPT !.settings = IF storeOk THEN settings ELSE "none"]
  IN
  /\ initReq.pc = "settings"
  /\ initReq.route = "stkpush"
  /\ IF ~storeOk THEN Responded(q, "500", "store")
     ELSE IF settings \in {"noDoc", "noSection", "disabled", "noShortCode"}
       THEN Responded(q, "400", "NotConfigured")
     ELSE initReq' = [q EXCEPT !.pc = "token", !.creds = "merchant"]
          /\ UNCHANGED initResp
  /\ UNCHANGED <<outbound, reconcileVars, reminderVars, queryVars, methodVars, orderVars>>

\* getAccessToken (server.js 102-159) called at 366: it reads the settings
\* again, and asks the gateway for a token with the merchant's key.
\* server.js 150-158: whatever the token request threw - the gateway
\* refusing the consumer key and secret, a 5xx answer, no connection - is
\* rethrown as 'Failed to get access token: <message>', which the catch of
\* the route (server.js 457-470) answers with status 500.
AccessTokenFailure(token) ==
  [code |-> "500", error |-> "AccessToken",
   detail |-> IF token = "rejected" THEN "Request failed with status code 401"
              ELSE "Request failed with status code 503 / connect ETIMEDOUT"]

GetAccessToken(token) ==
  LET tokenCall == [gateway |-> "mpesa", call |-> "token", creds |-> initReq.creds,
                    phone |-> <<>>]
  IN
  /\ initReq.pc = "token"
  /\ IF token = "readFailed" THEN Responded(initReq, "500", "store")
                                  /\ UNCHANGED outbound
     ELSE IF initReq.settings = "noConsumerKey"
       THEN Responded(initReq, "500", "NotConfigured") /\ UNCHANGED outbound
     ELSE IF token \in {"rejected", "unreachable"}
       THEN Responded([initReq EXCEPT !.token = token],
                      AccessTokenFailure(token).code,
                      AccessTokenFailure(token).error)
            /\ outbound' = Append(outbound, tokenCall)
     ELSE /\ initReq' = [initReq EXCEPT !.pc = "push"]
          /\ outbound' = Append(outbound, tokenCall)
          /\ UNCHANGED initResp
  /\ UNCHANGED <<reconcileVars, reminderVars, queryVars, methodVars, orderVars>>

\* (mutant) a push the gateway refuses marks the transaction as failed.
StkPushSendRecordsFailure(stk) ==
  LET pushCall == [gateway |-> "mpesa", call |-> "stkpush", creds |-> initReq.creds,
                   phone |-> initReq.normalized]
  IN
  /\ initReq.pc = "push"
  /\ outbound' = Append(outbound, pushCall)
  /\ IF stk = "ok" THEN Responded(initReq, "200", "none")
     ELSE IF stk \in {"500.001.1001", "400.002.02", "404.001.03"}
       THEN Responded(initReq, "400", stk)
     ELSE Responded(initReq, "502", "gateway")
  /\ tx' = IF stk = "ok" THEN tx ELSE [tx EXCEPT !["t1"].status = "failed"]
  /\ UNCHANGED <<cust, req, effects, delivered, overlapped, faulted, whResp,
                 reminderVars, queryVars, methodVars, orderVars>>

\* server.js 367-455: the STK push request and the response to its outcome.
StkPushSend(stk) ==
  LET pushCall == [gateway |-> "mpesa", call |-> "stkpush", creds |-> initReq.creds,
                   phone |-> initReq.normalized]
  IN
  /\ initReq.pc = "push"
  /\ outbound' = Append(outbound, pushCall)
  /\ IF stk = "ok" THEN Responded(initReq, "200", "none")
     ELSE IF stk \in {"500.001.1001", "400.002.02", "404.001.03"}
       THEN Responded(initReq, "400", stk)
     ELSE Responded(initReq, "502", "gateway")
  /\ UNCHANGED <<reconcileVars, reminderVars, queryVars, methodVars, orderVars>>

\* POST /paystack/initialize and POST /paypal/create-order up to the call
\* of the service, and the entry of createPaymentIntent.
GatewayValidate(gw, amount, hasFields, hasMerchant) ==
  LET q == [pc |-> "credentials", route |-> gw, phone |-> <<>>, amount |-> amount,
            normalized |-> <<>>, settings |-> "none", creds |-> "none",
            token |-> "none"]
  IN
  /\ initReq.pc = "idle"
  /\ IF gw # "stripe" /\ (AmountFalsy(amount) \/ ~hasFields)
       THEN Responded(q, "400", "MissingFields")
     ELSE IF ~hasMerchant
       THEN Responded(q, IF gw = "stripe" THEN "throws" ELSE "400", "MerchantRequired")
     ELSE initReq' = q /\ initResp' = NoInitResp
  /\ outbound' = <<>>
  /\ UNCHANGED <<reconcileVars, reminderVars, queryVars, methodVars, orderVars>>

\* getPaystackSecretKey (paystackService), getPayPalCredentials
\* (paypalService), getStripeInstance (stripeService): the merchant's
\* secret when the settings are complete and enabled, the built-in default
\* key in every other case, a failed read included.
ResolveCredentials(settings, storeOk) ==
  /\ initReq.pc = "credentials"
  /\ initReq' = [initReq EXCEPT
                   !.pc = "call",
                   !.settings = IF storeOk THEN settings ELSE "none",
                   !.creds = IF storeOk /\ settings = "ok" THEN "merchant"
                             ELSE "default"]
  /\ UNCHANGED <<initResp, outbound, reconcileVars, reminderVars, queryVars, methodVars, orderVars>>

\* initializeTransaction, createOrder, createPaymentIntent: the call to the
\* gateway with the resolved credentials.  PayPal asks for a token first.
GatewayCall(outcome) ==
  LET gw == initReq.route
      call(c) == [gateway |-> gw, call |-> c, creds |-> initReq.creds,
                  phone |-> <<>>]
      failure == IF gw = "stripe" THEN "throws" ELSE "500"
  IN
  /\ initReq.pc = "call"
  /\ outcome = "tokenFailed" => gw = "paypal"
  /\ outbound' = IF gw # "paypal" THEN <<call("initiate")>>
                 ELSE IF outcome = "tokenFailed" THEN <<call("token")>>
                 ELSE <<call("token"), call("initiate")>>
  /\ IF outcome = "ok" THEN Responded(initReq, "200", "none")
     ELSE Responded(initReq, failure, "gateway")
  /\ UNCHANGED <<reconcileVars, reminderVars, queryVars, methodVars, orderVars>>

\* The response has been sent and the request is over.
RequestEnd ==
  /\ initReq.pc = "done"
  /\ initReq' = NoInitReq
  /\ initResp' = NoInitResp
  /\ outbound' = <<>>
  /\ UNCHANGED <<reconcileVars, reminderVars, queryVars, methodVars, orderVars>>

Initiate ==
  \/ \E phone \in PhoneInputs, amount \in AmountInputs, hasOrderId \in BOOLEAN,
        hasMerchant \in BOOLEAN :
       StkPushValidate(phone, amount, hasOrderId, hasMerchant)
  \/ \E settings \in MpesaSettings, storeOk \in BOOLEAN :
       StkPushSettings(settings, storeOk)
  \/ \E token \in {"ok", "readFailed", "rejected", "unreachable"} :
       GetAccessToken(token)
  \/ \E stk \in {"ok", "500.001.1001", "400.002.02", "404.001.03", "other"} :
       StkPushSend(stk)
  \/ \E gw \in {"paystack", "paypal", "stripe"}, amount \in AmountInputs,
        hasFields \in BOOLEAN, hasMerchant \in BOOLEAN :
       GatewayValidate(gw, amount, hasFields, hasMerchant)
  \/ \E settings \in GatewaySettings, storeOk \in BOOLEAN :
       ResolveCredentials(settings, storeOk)
  \/ \E outcome \in {"ok", "tokenFailed", "failed"} : GatewayCall(outcome)
  \/ RequestEnd

(***************************************************************************)
(* Payment-link reminders (reminderService.js).  Time is in hours.         *)
(***************************************************************************)
MaxNow == 48
MaxStarted == 2
TickHours == 48

\* What the reminder service leaves alone.
otherVars == <<reconcileVars, initVars, queryVars, methodVars, orderVars>>

FirstAfterHours == 24
SecondAfterHours == 48
FinalAfterHours == 72

SweepInProgress(s) == sweep[s].pc # "idle"

\* The payment links are created, paid and expired outside this service.
\* The link l2 is created before the service first runs: like l1, or
\* differing from it in one field.  The link l1 is paid at any moment.
LinkTemplates ==
  {EligibleLink,
   [EligibleLink EXCEPT !.expiryDate = Time(24)],
   [EligibleLink EXCEPT !.status = "inactive"],
   [EligibleLink EXCEPT !.recipientPhone = FALSE],
   [EligibleLink EXCEPT !.createdAt = Time(0)],
   [EligibleLink EXCEPT !.paid = TRUE]}

CreateLink(l, d) ==
  /\ ~links[l].exists
  /\ now = 0 /\ started = 0
  /\ links' = [links EXCEPT ![l] = d]
  /\ UNCHANGED <<now, smsLog, reminderDocs, sweep, manual, started, otherVars>>

MarkPaid(l) ==
  /\ links[l].exists
  /\ ~links[l].paid
  /\ links' = [links EXCEPT ![l].paid = TRUE]
  /\ UNCHANGED <<now, smsLog, reminderDocs, sweep, manual, started, otherVars>>

Tick ==
  /\ now + TickHours <= MaxNow
  /\ now' = now + TickHours
  /\ UNCHANGED <<links, smsLog, reminderDocs, sweep, manual, started, otherVars>>

\* reminderService.js 146 and 267: expiryDate.seconds < Date.now() / 1000.
Expired(d) == d.expiryDate.set /\ d.expiryDate.at < now

\* (mutant) the tier is chosen by the age of the link alone.
ReminderTypeByAge(d) ==
  IF ~d.createdAt.set THEN "none"
  ELSE IF now - d.createdAt.at >= FinalAfterHours THEN "final"
  ELSE IF now - d.createdAt.at >= SecondAfterHours THEN "second"
  ELSE IF now - d.createdAt.at >= FirstAfterHours THEN "first"
  ELSE "none"

\* (mutant) the thresholds must be exceeded, not reached.
ReminderTypeStrict(d) ==
  IF ~d.createdAt.set THEN "none"
  ELSE IF ~d.lastReminderSent.set /\ now - d.createdAt.at > FirstAfterHours
    THEN "first"
  ELSE IF d.lastReminderSent.set /\ d.lastReminderType = "first"
          /\ now - d.lastReminderSent.at > SecondAfterHours
    THEN "second"
  ELSE IF d.lastReminderSent.set /\ d.lastReminderType = "second"
          /\ now - d.lastReminderSent.at > FinalAfterHours
    THEN "final"
  ELSE "none"

\* reminderService.js 160-188: the reminder due for a document, "none" when
\* none is.
ReminderType(d) ==
  IF ~d.createdAt.set THEN "none"
  ELSE IF ~d.lastReminderSent.set /\ now - d.createdAt.at >= FirstAfterHours
    THEN "first"
  ELSE IF d.lastReminderSent.set /\ d.lastReminderType = "first"
          /\ now - d.lastReminderSent.at >= SecondAfterHours
    THEN "second"
  ELSE IF d.lastReminderSent.set /\ d.lastReminderType = "second"
          /\ now - d.lastReminderSent.at >= FinalAfterHours
    THEN "final"
  ELSE "none"

\* (mutant) the loop without the check of line 151.
SweepDecisionIgnoresPaid(d) ==
  IF Expired(d) \/ ~d.recipientPhone THEN "none" ELSE ReminderType(d)

\* reminderService.js 145-190: the reminder to send for a document of the
\* query result, "none" when the loop skips it.
SweepDecision(d) ==
  IF Expired(d) \/ d.paid \/ ~d.recipientPhone THEN "none" ELSE ReminderType(d)

\* The documents of the query where('status', '==', 'active'), in order.
ActiveLinks ==
  LET has(l) == links[l].exists /\ links[l].status = "active"
  IN  (IF has("l1") THEN <<"l1">> ELSE <<>>) \o (IF has("l2") THEN <<"l2">> ELSE <<>>)

\* A run that has returned or thrown leaves nothing behind.
SweepDone == IdleSweep

\* checkUnpaidLinks is called by the hourly timer (server.js 1330-1337) or
\* by POST /check-unpaid-links (server.js 1044-1061), and issues its query.
SweepStart(s) ==
  /\ started < MaxStarted
  /\ started' = started + 1
  /\ ~SweepInProgress(s)
  /\ \A o \in SweepIds : (o < s) => SweepInProgress(o)
  /\ sweep' = [sweep EXCEPT ![s] =
       [IdleSweep EXCEPT !.pc = "query",
                         !.closed = {l \in LinkIds : links[l].paid \/ Expired(links[l])}]]
  /\ UNCHANGED <<links, now, smsLog, reminderDocs, manual, otherVars>>

\* reminderService.js 131-136: getDocs answers, or throws (213-216).
SweepGetDocs(s, ok) ==
  /\ sweep[s].pc = "query"
  /\ sweep' = [sweep EXCEPT ![s] =
       IF ok THEN [@ EXCEPT !.pc = "loop", !.snap = links, !.todo = ActiveLinks]
       ELSE SweepDone]
  /\ UNCHANGED <<links, now, smsLog, reminderDocs, manual, started, otherVars>>

\* reminderService.js 139-190 and 212: the loop visits the next document
\* and skips it or starts its reminder; after the last one the run returns.
SweepVisit(s) ==
  LET q == sweep[s]
      l == Head(q.todo)
      t == SweepDecision(q.snap[l])
  IN
  /\ q.pc = "loop"
  /\ sweep' = [sweep EXCEPT ![s] =
       IF q.todo = <<>> THEN SweepDone
       ELSE IF t = "none"
         THEN [q EXCEPT !.todo = Tail(q.todo), !.visited = @ \cup {l}]
       ELSE [q EXCEPT !.pc = "send", !.cur = l, !.tier = t,
                      !.todo = Tail(q.todo), !.visited = @ \cup {l}]]
  /\ UNCHANGED <<links, now, smsLog, reminderDocs, manual, started, otherVars>>

\* reminderService.js 12-68: the provider answers that it took the message
\* ("sent"), answers with an error status and body ("refused"), or the
\* request errors ("error").  The promise resolves on the end of any
\* response (50-53), whatever its status, and rejects on a request error
\* (56-59).
SmsResolves(reply) == reply \in {"sent", "refused"}

SendSMSReminder(reply, l, tier, by) ==
  smsLog' = IF reply = "sent"
              THEN [smsLog EXCEPT ![l] = Append(@, [tier |-> tier, by |-> by])]
              ELSE smsLog

\* (mutant) a failed send ends the run.
SweepSendAborts(s, reply) ==
  LET q == sweep[s]
  IN
  /\ q.pc = "send"
  /\ SendSMSReminder(reply, q.cur, q.tier, "sweep")
  /\ sweep' = [sweep EXCEPT ![s] =
       IF SmsResolves(reply) THEN [q EXCEPT !.pc = "track", !.sent = Append(@, q.cur)]
       ELSE SweepDone]
  /\ UNCHANGED <<links, now, reminderDocs, manual, started, otherVars>>

\* reminderService.js 193-194 and 206-208.
SweepSend(s, reply) ==
  LET q == sweep[s]
  IN
  /\ q.pc = "send"
  /\ SendSMSReminder(reply, q.cur, q.tier, "sweep")
  /\ sweep' = [sweep EXCEPT ![s] =
       IF SmsResolves(reply) THEN [q EXCEPT !.pc = "track", !.sent = Append(@, q.cur)]
       ELSE [q EXCEPT !.pc = "loop", !.cur = "none", !.tier = "none",
                      !.failed = @ \cup {q.cur}]]
  /\ UNCHANGED <<links, now, reminderDocs, manual, started, otherVars>>

\* (mutant) the update of the link leaves lastReminderType as it was.
TrackReminderKeepsType(outcome, l, tier) ==
  /\ reminderDocs' = IF outcome = "addFails" THEN reminderDocs
                     ELSE reminderDocs \cup {[link |-> l, tier |-> tier]}
  /\ links' = IF outcome = "ok" /\ links[l].exists
                THEN [links EXCEPT ![l].reminders = Append(@, tier),
                                   ![l].lastReminderSent = Time(now)]
                ELSE links

\* trackReminder (reminderService.js 77-119): addDoc, then getDoc and
\* updateDoc of the link.  outcome: "ok", "addFails" (nothing written) or
\* "updateFails" (the reminders document is written, the link is not).
TrackReminder(outcome, l, tier) ==
  /\ reminderDocs' = IF outcome = "addFails" THEN reminderDocs
                     ELSE reminderDocs \cup {[link |-> l, tier |-> tier]}
  /\ links' = IF outcome = "ok" /\ links[l].exists
                THEN [links EXCEPT ![l].reminders = Append(@, tier),
                                   ![l].lastReminderSent = Time(now),
                                   ![l].lastReminderType = tier]
                ELSE links

TrackOutcomes == {"ok", "addFails", "updateFails"}

\* reminderService.js 196-208.
SweepTrack(s, outcome) ==
  LET q == sweep[s]
      next == [q EXCEPT !.pc = "loop", !.cur = "none", !.tier = "none"]
  IN
  /\ q.pc = "track"
  /\ TrackReminder(outcome, q.cur, q.tier)
  /\ sweep' = [sweep EXCEPT ![s] =
       IF outcome = "ok"
         THEN [next EXCEPT !.processed = Append(@, [link |-> q.cur, tier |-> q.tier])]
         ELSE [next EXCEPT !.failed = @ \cup {q.cur}]]
  /\ UNCHANGED <<now, smsLog, manual, started, otherVars>>

ManualTiers == {"manual", "first", "second", "final"}

ManualDone(q, success, code) ==
  [IdleManual EXCEPT !.pc = "done", !.linkId = q.linkId, !.tier = q.tier,
                     !.snap = q.snap, !.success = success, !.code = code]

\* POST /send-reminder (server.js 1064-1097) up to the getDoc of
\* sendManualReminder.  tier is reminderType || 'manual'.
SendReminderRoute(linkId, tier, hasFields) ==
  LET q == [IdleManual EXCEPT !.linkId = linkId, !.tier = tier]
  IN
  /\ started < MaxStarted
  /\ started' = started + 1
  /\ manual.pc \in {"idle", "done"}
  /\ manual' = IF hasFields THEN [q EXCEPT !.pc = "read"]
               ELSE ManualDone(q, "none", "400")
  /\ UNCHANGED <<links, now, smsLog, reminderDocs, sweep, otherVars>>

\* (mutant) sendManualReminder without the check of line 272.
ManualGetDocIgnoresPaid(storeOk) ==
  LET d == links[manual.linkId]
      q == [manual EXCEPT !.snap = IF storeOk THEN d ELSE NoLink]
  IN
  /\ manual.pc = "read"
  /\ manual' =
       IF ~storeOk \/ ~d.exists \/ Expired(d) \/ d.status # "active"
         THEN ManualDone(q, "false", "400")
         ELSE [q EXCEPT !.pc = "send"]
  /\ UNCHANGED <<links, now, smsLog, reminderDocs, sweep, started, otherVars>>

\* reminderService.js 254-274 and 297-305: the link is read and checked;
\* every failed check throws, and the catch block returns success: false.
ManualGetDoc(storeOk) ==
  LET d == links[manual.linkId]
      q == [manual EXCEPT !.snap = IF storeOk THEN d ELSE NoLink]
  IN
  /\ manual.pc = "read"
  /\ manual' =
       IF ~storeOk \/ ~d.exists \/ Expired(d) \/ d.status # "active" \/ d.paid
         THEN ManualDone(q, "false", "400")
         ELSE [q EXCEPT !.pc = "send"]
  /\ UNCHANGED <<links, now, smsLog, reminderDocs, sweep, started, otherVars>>

\* reminderService.js 276-285.
ManualSend(reply) ==
  /\ manual.pc = "send"
  /\ SendSMSReminder(reply, manual.linkId, manual.tier, "manual")
  /\ manual' = IF SmsResolves(reply) THEN [manual EXCEPT !.pc = "track"]
               ELSE ManualDone(manual, "false", "400")
  /\ UNCHANGED <<links, now, reminderDocs, sweep, started, otherVars>>

\* reminderService.js 287-296.
ManualTrack(outcome) ==
  /\ manual.pc = "track"
  /\ TrackReminder(outcome, manual.linkId, manual.tier)
  /\ manual' = IF outcome = "ok" THEN ManualDone(manual, "true", "200")
               ELSE ManualDone(manual, "false", "400")
  /\ UNCHANGED <<now, smsLog, sweep, started, otherVars>>

LinksChange ==
  \/ \E d \in LinkTemplates : CreateLink("l2", d)
  \/ MarkPaid("l1")
  \/ Tick

CheckUnpaidLinks ==
  \/ \E s \in SweepIds : SweepStart(s)
  \/ \E s \in SweepIds, ok \in BOOLEAN : SweepGetDocs(s, ok)
  \/ \E s \in SweepIds : SweepVisit(s)
  \/ \E s \in SweepIds, reply \in {"sent", "error"} : SweepSend(s, reply)
  \/ \E s \in SweepIds, outcome \in TrackOutcomes : SweepTrack(s, outcome)

SendManualReminder ==
  \/ \E l \in LinkIds, tier \in ManualTiers, hasFields \in BOOLEAN :
       SendReminderRoute(l, tier, hasFields)
  \/ \E storeOk \in BOOLEAN : ManualGetDoc(storeOk)
  \/ \E reply \in {"sent", "error"} : ManualSend(reply)
  \/ \E outcome \in TrackOutcomes : ManualTrack(outcome)

\* The sends that the provider answers with an error status.
RefusedSends ==
  \/ \E s \in SweepIds : SweepSend(s, "refused")
  \/ ManualSend("refused")

\* The reminder service with the changes of the links around it.
Remind == LinksChange \/ CheckUnpaidLinks \/ SendManualReminder \/ RefusedSends
Sweeps == LinksChange \/ CheckUnpaidLinks
Manuals == LinksChange \/ SendManualReminder

(***************************************************************************)
(* POST /query (server.js 646-855): the status of an STK push, asked of    *)
(* the gateway.                                                            *)
(***************************************************************************)
CheckoutRequestIds == {"ws_CO_1", "ws_CO_2"}
Environments == {"sandbox", "production"}

\* ResultCode of a query response: JSON number or string, or absent.
QueryResultCodes ==
  {Num(0), Str(0), Num(1032), Str(1032), Num(4999), Str(4999), Str(1),
   Str(1037), Undef}

\* errorCode of an error response of the gateway; "none" when the request
\* failed with no response body.
QueryErrorCodes ==
  {"500.001.1001", "500.001.1032", "404.001.03", "400.002.02",
   "500.003.02", "none"}

QueryReplies ==
  {[kind |-> "data", rc |-> c, errorCode |-> "none"] : c \in QueryResultCodes}
  \cup {[kind |-> "error", rc |-> Undef, errorCode |-> e] : e \in QueryErrorCodes}

QueryBody(responseCode, resultCode, flag) ==
  [ResponseCode |-> responseCode, ResultCode |-> resultCode, flag |-> flag]

\* sendJsonResponse(res, code, body) ending the request.
QueryResponded(q, code, body) ==
  qry' = [q EXCEPT !.pc = "done", !.code = code, !.body = body]

\* The body of the 400 answers and of the catch of 839-854.
QueryFailure == QueryBody("1", Str(1), "none")

\* server.js 751-788: the answer to a response of the gateway.
QueryResultMapping(rc) ==
  IF rc = Str(0)
    THEN [code |-> "200", body |-> QueryBody("0", Str(0), "isSuccessful")]
  ELSE IF rc = Str(1032)
    THEN [code |-> "200", body |-> QueryBody("3", Str(1032), "isCanceled")]
  ELSE IF rc = Str(4999) \/ rc = Num(4999)
    THEN [code |-> "200", body |-> QueryBody("2", Str(4999), "isProcessing")]
  ELSE [code |-> "200", body |-> QueryBody("0", rc, "none")]

\* server.js 789-838: the answer to an error of the gateway.
QueryErrorMapping(errorCode) ==
  IF errorCode = "500.001.1001"
    THEN [code |-> "400", body |-> QueryFailure]
  ELSE IF errorCode \in {"500.001.1032", "404.001.03"}
    THEN [code |-> "200", body |-> QueryBody("3", Str(1032), "isCanceled")]
  ELSE IF errorCode = "400.002.02"
    THEN [code |-> "400", body |-> QueryFailure]
  ELSE [code |-> "200", body |-> QueryFailure]

\* server.js 646-675: the required fields.
QueryValidate(queryCode, hasMerchant) ==
  LET q == [NoQuery EXCEPT !.queryCode = queryCode]
  IN
  /\ qry.pc = "idle"
  /\ IF queryCode = "none" THEN QueryResponded(q, "200", QueryFailure)
     ELSE IF ~hasMerchant THEN QueryResponded(q, "400", QueryFailure)
     ELSE qry' = [q EXCEPT !.pc = "settings"]
  /\ UNCHANGED <<reconcileVars, initVars, reminderVars, methodVars, orderVars>>

\* server.js 675-715: the merchant settings.
QuerySettings(settings, environment, storeOk) ==
  /\ qry.pc = "settings"
  /\ IF ~storeOk THEN QueryResponded(qry, "200", QueryFailure)
     ELSE IF settings \in {"noDoc", "noSection", "disabled", "noShortCode"}
       THEN QueryResponded(qry, "400", QueryFailure)
     ELSE qry' = [qry EXCEPT !.pc = IF settings = "ok" THEN "token" ELSE "noKey",
                             !.environment = environment]
  /\ UNCHANGED <<reconcileVars, initVars, reminderVars, methodVars, orderVars>>

\* server.js 717: getAccessToken (102-159); its throw is caught at 839.
QueryGetAccessToken(token) ==
  /\ qry.pc \in {"token", "noKey"}
  /\ IF qry.pc = "noKey" \/ token # "ok"
       THEN QueryResponded(qry, "200", QueryFailure)
       ELSE qry' = [qry EXCEPT !.pc = "call"]
  /\ UNCHANGED <<reconcileVars, initVars, reminderVars, methodVars, orderVars>>

\* (mutant) the query records the outcome it learnt in the transaction.
QueryCallStoresStatus(reply) ==
  LET r == IF reply.kind = "data" THEN QueryResultMapping(reply.rc)
           ELSE QueryErrorMapping(reply.errorCode)
  IN
  /\ qry.pc = "call"
  /\ QueryResponded([qry EXCEPT !.reply = reply], r.code, r.body)
  /\ tx' = IF r.body.flag = "isSuccessful"
             THEN [tx EXCEPT !["t1"].status = "success"]
             ELSE tx
  /\ UNCHANGED <<cust, req, effects, delivered, overlapped, faulted, whResp,
                 initVars, reminderVars, methodVars, orderVars>>

\* server.js 740-838: the query request and the answer to its outcome.
QueryCall(reply) ==
  LET r == IF reply.kind = "data" THEN QueryResultMapping(reply.rc)
           ELSE QueryErrorMapping(reply.errorCode)
  IN
  /\ qry.pc = "call"
  /\ QueryResponded([qry EXCEPT !.reply = reply], r.code, r.body)
  /\ UNCHANGED <<reconcileVars, initVars, reminderVars, methodVars, orderVars>>

\* The response has been sent; the client polls again.
QueryEnd ==
  /\ qry.pc = "done"
  /\ qry' = NoQuery
  /\ UNCHANGED <<reconcileVars, initVars, reminderVars, methodVars, orderVars>>

Query ==
  \/ \E queryCode \in CheckoutRequestIds \cup {"none"}, hasMerchant \in BOOLEAN :
       QueryValidate(queryCode, hasMerchant)
  \/ \E settings \in MpesaSettings, environment \in Environments,
        storeOk \in BOOLEAN :
       QuerySettings(settings, environment, storeOk)
  \/ \E token \in {"ok", "readFailed", "rejected"} : QueryGetAccessToken(token)
  \/ \E reply \in QueryReplies : QueryCall(reply)
  \/ QueryEnd

(***************************************************************************)
(* storeCustomerInformation (invoiceService.js 609-627): the payment       *)
(* method statistics of a customer.  paymentMethods is an object: a        *)
(* sequence of entries in the order of its keys, a new key going last.     *)
(***************************************************************************)
\* Upserts of one customer in one behaviour.
MaxUpserts == 5

Processors == {"mpesa", "stripe", "paystack"}

HasProcessor(stats, p) == \E i \in 1..Len(stats) : stats[i].processor = p

\* paymentStats[p]?.count, 0 standing for undefined (it compares as false).
CountOf(stats, p) ==
  IF HasProcessor(stats, p)
    THEN (CHOOSE e \in {stats[i] : i \in 1..Len(stats)} : e.processor = p).count
    ELSE 0

RECURSIVE TotalCount(_)
TotalCount(stats) ==
  IF stats = <<>> THEN 0 ELSE Head(stats).count + TotalCount(Tail(stats))

\* Lines 612-622: the entry of the processor is counted up, or created.
UpdatePaymentStats(stats, processor) ==
  IF HasProcessor(stats, processor)
    THEN [i \in 1..Len(stats) |->
            IF stats[i].processor = processor
              THEN [stats[i] EXCEPT !.count = @ + 1] ELSE stats[i]]
    ELSE Append(stats, [processor |-> processor, count |-> 1])

\* Lines 625-626: Object.keys(paymentStats).reduce((a, b) =>
\* paymentStats[a]?.count > paymentStats[b]?.count ? a : b, processor).
RECURSIVE ReducePreferred(_, _, _)
ReducePreferred(stats, a, i) ==
  IF i > Len(stats) THEN a
  ELSE ReducePreferred(stats,
         IF CountOf(stats, a) > stats[i].count THEN a ELSE stats[i].processor,
         i + 1)

PreferredPaymentMethod(stats, processor) == ReducePreferred(stats, processor, 1)

\* An upsert for a transaction paid through processor, the customer
\* document read and written with no other upsert in between.
StorePaymentMethods(processor) ==
  LET paymentStats == UpdatePaymentStats(methods.stats, processor)
  IN
  /\ TotalCount(methods.stats) < MaxUpserts
  /\ methods' = [stats |-> paymentStats,
                 preferred |-> PreferredPaymentMethod(paymentStats, processor)]
  /\ UNCHANGED <<reconcileVars, initVars, reminderVars, queryVars, orderVars>>

CustomerMethods == \E processor \in Processors : StorePaymentMethods(processor)

(***************************************************************************)
(* POST /validation/:orderId (server.js 186-272).  The ids are those of    *)
(* the transactions, "o1" of the order, and "x" of nothing.                *)
(***************************************************************************)
\* server.js 188-200: the request arrives and the transaction is read; a
\* throw is caught at 255.
ValidationGetDoc(id, ok) ==
  /\ val.pc \in {"idle", "done"}
  /\ val' = IF ~ok THEN [pc |-> "done", orderId |-> id, resp |-> "200:ResultCode=0:Accepted"]
            ELSE IF id \in TxIds /\ tx[id].exists
              THEN [pc |-> "storeTx", orderId |-> id, resp |-> "none"]
            ELSE [pc |-> "readOrder", orderId |-> id, resp |-> "none"]
  /\ UNCHANGED <<order, ordReq, callLog, reconcileVars, initVars, reminderVars,
                 queryVars, methodVars>>

\* server.js 224-228 and 250-252: the order is read.
ValidationGetOrder(ok) ==
  /\ val.pc = "readOrder"
  /\ val' = IF ok /\ val.orderId = "o1" /\ order.exists
              THEN [val EXCEPT !.pc = "storeOrder"]
              ELSE [val EXCEPT !.pc = "done", !.resp = "200:ResultCode=0:Accepted"]
  /\ UNCHANGED <<order, ordReq, callLog, reconcileVars, initVars, reminderVars,
                 queryVars, methodVars>>

\* (mutant) the validation marks the document as validated.
ValidationStoreSetsStatus(ok) ==
  /\ val.pc \in {"storeTx", "storeOrder"}
  /\ val' = [val EXCEPT !.pc = "done", !.resp = "200:ResultCode=0:Accepted"]
  /\ tx' = IF ok /\ val.pc = "storeTx"
             THEN [tx EXCEPT ![val.orderId].validationStatus = "received",
                             ![val.orderId].status = "validated"]
             ELSE tx
  /\ order' = IF ok /\ val.pc = "storeOrder"
                THEN [order EXCEPT !.validationStatus = "received",
                                   !.status = "validated"]
                ELSE order
  /\ UNCHANGED <<ordReq, callLog, cust, req, effects, delivered, overlapped,
                 faulted, whResp, initVars, reminderVars, queryVars, methodVars>>

\* server.js 202-222 and 229-249, then 260-263: updateDoc writes
\* validationRequest, validationTimestamp and validationStatus, or throws
\* (caught at 255); the request is accepted.
ValidationStore(ok) ==
  /\ val.pc \in {"storeTx", "storeOrder"}
  /\ val' = [val EXCEPT !.pc = "done", !.resp = "200:ResultCode=0:Accepted"]
  /\ tx' = IF ok /\ val.pc = "storeTx"
             THEN [tx EXCEPT ![val.orderId].validationStatus = "received"]
             ELSE tx
  /\ order' = IF ok /\ val.pc = "storeOrder"
                THEN [order EXCEPT !.validationStatus = "received"]
                ELSE order
  /\ UNCHANGED <<ordReq, callLog, cust, req, effects, delivered, overlapped,
                 faulted, whResp, initVars, reminderVars, queryVars, methodVars>>

Validation ==
  \/ \E id \in TxIds \cup {"o1", "x"}, ok \in BOOLEAN : ValidationGetDoc(id, ok)
  \/ \E ok \in BOOLEAN : ValidationGetOrder(ok)
  \/ \E ok \in BOOLEAN : ValidationStore(ok)

(***************************************************************************)
(* POST /update-order-status (server.js 857-961)                           *)
(***************************************************************************)
MaxCalls == 3

\* server.js 859-867: the request arrives; a missing orderId or newStatus is
\* answered 400.
OrderStatusRoute(orderId, newStatus) ==
  /\ ordReq.pc \in {"idle", "done"}
  /\ Len(callLog) < MaxCalls
  /\ callLog' = Append(callLog, [status |-> newStatus, email |-> FALSE, sms |-> FALSE])
  /\ ordReq' = IF orderId = "none" \/ newStatus = "none"
                 THEN [NoOrdReq EXCEPT !.pc = "done", !.orderId = orderId,
                                       !.newStatus = newStatus, !.code = "400"]
                 ELSE [NoOrdReq EXCEPT !.pc = "read", !.orderId = orderId,
                                       !.newStatus = newStatus]
  /\ UNCHANGED <<order, val, reconcileVars, initVars, reminderVars, queryVars,
                 methodVars>>

\* server.js 869-887: the order is read; an unknown order is answered 404,
\* and a status whose notification was sent is answered at once.
OrderGetDoc(ok) ==
  /\ ordReq.pc = "read"
  /\ ordReq' =
       IF ~ok THEN [ordReq EXCEPT !.pc = "done", !.code = "500", !.storeOk = FALSE]
       ELSE IF ordReq.orderId # "o1" \/ ~order.exists
         THEN [ordReq EXCEPT !.pc = "done", !.code = "404"]
       ELSE IF order.lastNotificationStatus = ordReq.newStatus
               /\ order.notificationSent
         THEN [ordReq EXCEPT !.pc = "done", !.code = "200:already",
                             !.orderData = order]
       ELSE [ordReq EXCEPT !.pc = "update", !.orderData = order]
  /\ UNCHANGED <<order, callLog, val, reconcileVars, initVars, reminderVars,
                 queryVars, methodVars>>

\* server.js 889-893: the status is written.
OrderUpdateDoc(ok) ==
  /\ ordReq.pc = "update"
  /\ IF ok THEN /\ order' = [order EXCEPT !.status = ordReq.newStatus]
                /\ ordReq' = [ordReq EXCEPT !.pc = "email"]
     ELSE /\ ordReq' = [ordReq EXCEPT !.pc = "done", !.code = "500",
                                      !.storeOk = FALSE]
          /\ UNCHANGED order
  /\ UNCHANGED <<callLog, val, reconcileVars, initVars, reminderVars, queryVars,
                 methodVars>>

\* server.js 895-898: sendOrderStatusUpdateEmail sends, or throws an Error
\* (emailService.js 503-507).
OrderSendEmail(ok) ==
  /\ ordReq.pc = "email"
  /\ IF ok THEN /\ callLog' = [callLog EXCEPT ![Len(callLog)].email = TRUE]
                /\ ordReq' = [ordReq EXCEPT !.pc = "sms"]
     ELSE /\ ordReq' = [ordReq EXCEPT !.pc = "trackError", !.failed = "email",
                                      !.err = "message"]
          /\ UNCHANGED callLog
  /\ UNCHANGED <<order, val, reconcileVars, initVars, reminderVars, queryVars,
                 methodVars>>

\* server.js 900-916: sendSMS sends, or rejects with the object
\* {success: false, error} (smsService.js 61-64), which has no message.
OrderSendSMS(ok) ==
  /\ ordReq.pc = "sms"
  /\ IF ok THEN /\ callLog' = [callLog EXCEPT ![Len(callLog)].sms = TRUE]
                /\ ordReq' = [ordReq EXCEPT !.pc = "track"]
     ELSE /\ ordReq' = [ordReq EXCEPT !.pc = "trackError", !.failed = "sms",
                                      !.err = "undefined"]
          /\ UNCHANGED callLog
  /\ UNCHANGED <<order, val, reconcileVars, initVars, reminderVars, queryVars,
                 methodVars>>

\* server.js 918-934: the notification tracking is written and the request
\* answered; a throw of the updateDoc is caught at 935 like a failed
\* notification.
OrderTrackSent(ok) ==
  /\ ordReq.pc = "track"
  /\ IF ok
       THEN /\ order' = [order EXCEPT
                 !.notificationSent = TRUE,
                 !.lastNotificationStatus = ordReq.newStatus,
                 !.notificationHistory =
                    Append(ordReq.orderData.notificationHistory,
                           [status |-> ordReq.newStatus, kind |-> "sent",
                            error |-> "none"])]
            /\ ordReq' = [ordReq EXCEPT !.pc = "done", !.code = "200:sent"]
       ELSE /\ ordReq' = [ordReq EXCEPT !.pc = "trackError", !.err = "message",
                                        !.storeOk = FALSE]
            /\ UNCHANGED order
  /\ UNCHANGED <<callLog, val, reconcileVars, initVars, reminderVars, queryVars,
                 methodVars>>

\* server.js 935-960: the catch block writes notificationSent: false, the
\* message of the error and an error entry, and rethrows; the outer catch
\* answers 500.  outcome: "stored"; "invalidData", the store refusing the
\* undefined value of notificationError (only when the error has no
\* message); "storeError", the store failing.  A throw of this updateDoc
\* also ends in the outer catch.
OrderTrackError(outcome) ==
  /\ ordReq.pc = "trackError"
  /\ outcome = "invalidData" => ordReq.err = "undefined"
  /\ order' = IF outcome = "stored"
                THEN [order EXCEPT
                        !.notificationSent = FALSE,
                        !.notificationError = ordReq.err,
                        !.notificationHistory =
                           Append(ordReq.orderData.notificationHistory,
                                  [status |-> ordReq.newStatus, kind |-> "error",
                                   error |-> ordReq.err])]
                ELSE order
  /\ ordReq' = [ordReq EXCEPT !.pc = "done", !.code = "500",
                              !.storeOk = (@ /\ outcome # "storeError")]
  /\ UNCHANGED <<callLog, val, reconcileVars, initVars, reminderVars, queryVars,
                 methodVars>>

UpdateOrderStatus ==
  \/ \E orderId \in {"o1", "o2", "none"},
        newStatus \in {"processing", "shipped", "none"} :
       OrderStatusRoute(orderId, newStatus)
  \/ \E ok \in BOOLEAN : OrderGetDoc(ok)
  \/ \E ok \in BOOLEAN : OrderUpdateDoc(ok)
  \/ \E ok \in BOOLEAN : OrderSendEmail(ok)
  \/ \E ok \in BOOLEAN : OrderSendSMS(ok)
  \/ \E ok \in BOOLEAN : OrderTrackSent(ok)
  \/ \E outcome \in {"stored", "invalidData", "storeError"} :
       OrderTrackError(outcome)

\* Reconciliation: the gateways report the outcome of a payment.
Reconcile == Callback \/ Webhook

Next ==
  \/ Reconcile \/ Initiate \/ Remind \/ Query \/ CustomerMethods
  \/ Validation \/ UpdateOrderStatus
  \/ \E r \in Slots : SideEffectNeverResponds(r)

Spec == Init /\ [][Next]_vars

\* The M-Pesa callback route alone, and the webhook handlers alone.
SpecCallback == Init /\ [][Callback]_vars
SpecWebhook == Init /\ [][Webhook]_vars

\* The initiation routes alone.
SpecInitiate == Init /\ [][Initiate]_vars

\* Callbacks and webhooks together.
SpecReconcile == Init /\ [][Reconcile]_vars

\* The reminder sweeps, and the manual reminders, with the links changing.
\* The transactions play no part in them: t1 has its payer email.
InitReminder == Init /\ tx["t1"].payerEmail
SpecSweep == InitReminder /\ [][Sweeps]_vars
SpecManual == InitReminder /\ [][Manuals]_vars

\* The callback route with providers that may never respond; the event loop
\* runs every continuation that is ready (weak fairness of each request's
\* steps), and nothing obliges a provider to respond.
SpecCallbackFair ==
  /\ Init
  /\ [][CallbackUnresponsive]_vars
  /\ \A r \in Slots : WF_vars(CallbackStep(r))

\* The sweeps over one link that is at, or one hour short of, a threshold:
\* never reminded and created 23 or 24 hours ago, or created 200 hours ago
\* and last reminded 47, 48, 71 or 72 hours ago with any tier.
TierLinks ==
  {[EligibleLink EXCEPT !.createdAt = Time(0 - h)] : h \in {23, 24}}
  \cup {[EligibleLink EXCEPT !.createdAt = Time(0 - 200), !.reminders = <<t>>,
                             !.lastReminderSent = Time(0 - h),
                             !.lastReminderType = t] :
          h \in {47, 48, 71, 72}, t \in {"first", "second", "final"}}

InitTier ==
  /\ InitOther
  /\ tx["t1"].payerEmail
  /\ \E d \in TierLinks : links = [l \in LinkIds |-> IF l = "l1" THEN d ELSE NoLink]
  /\ now = 0

SpecTier == InitTier /\ [][CheckUnpaidLinks]_vars

\* The sweeps and the manual reminders over the link l1, with a provider
\* that may refuse a message.
SpecRefused ==
  InitReminder /\ [][CheckUnpaidLinks \/ SendManualReminder \/ RefusedSends]_vars

\* The validation route with the Stripe webhook events, and the order
\* status route alone.
SpecValidation ==
  /\ Init
  /\ [][\/ Validation
        \/ \E ev \in {"payment_intent.succeeded", "payment_intent.payment_failed"},
              t \in WebhookTargets, storeOk \in BOOLEAN :
             StripeWebhookEvent(ev, t, storeOk)]_vars
SpecOrders == Init /\ [][UpdateOrderStatus]_vars

\* The query route alone.
SpecQuery == Init /\ [][Query]_vars

\* The payment method statistics of a customer alone.
SpecMethods == Init /\ [][CustomerMethods]_vars

(***************************************************************************)
(* Claims                                                                  *)
(***************************************************************************)
Ack200 == "200:ResponseCode=0"

\* C1: once a transaction's persisted status is success, failed or canceled,
\* no later callback or webhook delivery changes it.
C1_TerminalStability ==
  [][\A t \in TxIds :
       tx[t].status \in TerminalStatuses => tx'[t].status = tx[t].status]_vars

\* Both slots hold the two deliveries of one behaviour: the same payload, a
\* success, for t1, the second started after the first was answered, and no
\* store or side-effect call failed.
SameSuccessDeliveredTwice ==
  /\ delivered = 2
  /\ ~overlapped
  /\ ~faulted
  /\ \A r \in Slots :
       /\ req[r].pc = "done"
       /\ req[r].tx = "t1"
       /\ req[r].err = "none"
       /\ req[r].newStatus = "success"
       /\ req[r].body = req[1].body

\* C2: the same successful callback delivered twice, one after the other,
\* gives exactly one customer counter increment, at most one invoice
\* generation call and one run of the side effects (one SMS).
C2_RedeliveryIdempotent ==
  SameSuccessDeliveredTwice =>
    /\ cust.totalTransactions = 1
    /\ cust.totalSpent = TxAmount
    /\ effects["t1"].invoice <= 1
    /\ effects["t1"].dispatch <= 1
    /\ effects["t1"].sms <= 1

\* C3: of two successful callbacks for one transaction handled concurrently,
\* at most one runs the side effects.
C3_RaceSingleDispatch ==
  ( /\ overlapped
    /\ \A r \in Slots : req[r].pc # "idle" /\ req[r].newStatus = "success"
    /\ req[1].tx = req[2].tx )
  => effects[req[1].tx].dispatch <= 1

\* C4: every answer of the callback route is the success acknowledgement
\* (HTTP 200, ResponseCode "0"), whatever the payload, whether or not the
\* transaction exists and whichever step threw; a request is answered
\* exactly when its handler ends.
C4_CallbackAlwaysAcks ==
  \A r \in Slots :
    /\ req[r].pc = "done" => req[r].resp = Ack200
    /\ req[r].pc # "done" => req[r].resp = "none"

\* C4 witness: the document update threw and the request was acknowledged.
C4_Witness ==
  \E r \in Slots :
    req[r].pc = "done" /\ req[r].err = "updateDoc" /\ req[r].resp = Ack200

\* C5: once the signature check has passed, the Paystack and PayPal webhook
\* routes never answer with a non-2xx status.
C5_WebhookNeverNon2xx ==
  (whResp.gateway \in {"paystack", "paypal"} /\ whResp.sigOk)
    => whResp.code = "200"

\* The result-code table of the push-payment gateway.
NormalizedOutcome(rc) ==
  IF rc = Num(0) THEN "success"
  ELSE IF rc = Num(4999) THEN "pending"
  ELSE IF rc = Num(1032) THEN "canceled"
  ELSE "failed"

\* C6: the callback maps result code 0 to success, 4999 (still processing)
\* to pending, 1032 (canceled by the user) to canceled and every other
\* nonzero or unrecognized code to failed.
C6_ResultCodeTable ==
  \A r \in Slots :
    (req[r].pc = "update" /\ req[r].body.rc # Str(0))
      => req[r].newStatus = NormalizedOutcome(req[r].body.rc)

\* C7: a malformed payload (no Body, or no Body.stkCallback) for an existing
\* pending transaction raises no exception while it is parsed and records
\* the transaction as failed.
C7_MalformedRecordedFailed ==
  \A r \in Slots :
    ( /\ req[r].pc = "done"
      /\ req[r].sawStatus = "pending"
      /\ req[r].body.shape # "full"
      /\ delivered = 1 )
    => (req[r].err # "parse" /\ tx[req[r].tx].status = "failed")

\* The update of slot r is written in this step for a pending transaction,
\* from a payload with result code rc and a receipt item.
UpdateWritten(r, rcs) ==
  /\ req[r].pc = "update"
  /\ req'[r].pc # "update"
  /\ req'[r].err = "none"
  /\ req[r].body.rc \in rcs
  /\ req[r].body.receipt # "none"
  /\ tx[req[r].tx].status = "pending"

ReceiptStored(r) ==
  /\ tx'[req[r].tx].status = "success"
  /\ tx'[req[r].tx].mpesaReceiptNumber = req[r].body.receipt

CanonicalPhone == <<"2", "5", "4", "7", "1", "2", "3", "4", "5", "6", "7", "8">>

NamedPhoneForms ==
  {<<"0", "7", "1", "2", "3", "4", "5", "6", "7", "8">>,
   <<"+", "2", "5", "4", "7", "1", "2", "3", "4", "5", "6", "7", "8">>,
   <<"7", "1", "2", "3", "4", "5", "6", "7", "8">>}

\* 254 followed by exactly 9 digits.
IsCanonicalForm(p) ==
  /\ Len(p) = 12
  /\ p[1] = "2" /\ p[2] = "5" /\ p[3] = "4"
  /\ \A i \in 4..12 :
       p[i] \in {"0", "1", "2", "3", "4", "5", "6", "7", "8", "9"}

\* An STK push request whose required fields were present, past the phone
\* check.
PhoneChecked ==
  /\ initReq.route = "stkpush"
  /\ initReq.pc # "idle"
  /\ initResp.error # "MissingFields"

\* C9: on /stkpush, each of 0712345678, +254712345678 and 712345678 is
\* normalized to 254712345678 and passes the phone check; a number whose
\* normalized form is not 254 followed by 9 digits is answered 400 with the
\* invalid-phone error and no gateway call has been made for it; a number
\* already in canonical form is used unchanged; and the number sent to the
\* gateway is always in canonical form.
C9_PhoneNormalization ==
  /\ PhoneChecked =>
       /\ initReq.phone \in NamedPhoneForms =>
            /\ initReq.normalized = CanonicalPhone
            /\ initResp.error # "InvalidPhone"
       /\ initResp.error = "InvalidPhone" <=> ~IsCanonicalForm(initReq.normalized)
       /\ initResp.error = "InvalidPhone" =>
            initResp.code = "400" /\ outbound = <<>> /\ initReq.pc = "done"
       /\ IsCanonicalForm(initReq.phone) => initReq.normalized = initReq.phone
  /\ \A i \in 1..Len(outbound) :
       outbound[i].call = "stkpush" => IsCanonicalForm(outbound[i].phone)

\* 0712345678 was accepted and sent to the gateway as 254712345678.
C9_Witness ==
  /\ initReq.route = "stkpush"
  /\ initReq.pc = "done"
  /\ initReq.phone = <<"0", "7", "1", "2", "3", "4", "5", "6", "7", "8">>
  /\ initResp.code = "200"
  /\ Len(outbound) = 2
  /\ outbound[2].call = "stkpush"
  /\ outbound[2].phone = CanonicalPhone

(***************************************************************************)
(* C10.  Merchants whose gateway is not configured.                        *)
(***************************************************************************)
\* C10: for every gateway, a request of a merchant whose settings document
\* is absent, has no section for the gateway, has the gateway disabled or
\* lacks a secret ends with a not-configured error and without a call to
\* the gateway (a request that a failed read of the store ended is left
\* aside); and no call to a gateway carries the default credentials.
C10_NotConfiguredNeverDefault ==
  /\ (initReq.pc = "done" /\ initReq.settings \notin {"none", "ok"}) =>
       initResp.error \in {"NotConfigured", "store"}
  /\ initReq.settings \notin {"none", "ok"} => outbound = <<>>
  /\ \A i \in 1..Len(outbound) : outbound[i].creds # "default"

(***************************************************************************)
(* C11, C12.  Authenticity of the Paystack and PayPal webhooks.            *)
(***************************************************************************)
\* This step handles a webhook of gateway gw whose signature is not the
\* genuine one of the body as sent.
HandlesForgedWebhook(gw) ==
  /\ delivered' = delivered + 1
  /\ req' = req
  /\ whResp'.gateway = gw
  /\ ~whResp'.genuine

\* The step leaves every transaction and every side effect as it was.
NothingHandled == tx' = tx /\ effects' = effects

\* C11: a Paystack webhook whose x-paystack-signature is not the HMAC of the
\* body under the webhook secret is answered with a client error (400), the
\* event handler is not invoked, no transaction status changes and no email
\* is sent.
C11_PaystackForgedRejected ==
  [][HandlesForgedWebhook("paystack") =>
       /\ whResp'.code = "400"
       /\ ~whResp'.sigOk
       /\ NothingHandled]_vars

\* C12: a PayPal webhook whose signature headers are invalid is rejected,
\* changes no transaction status and sends no confirmation email.
C12_PayPalForgedRejected ==
  [][HandlesForgedWebhook("paypal") =>
       /\ whResp'.code = "400"
       /\ NothingHandled]_vars

(***************************************************************************)
(* C13 - C18.  Payment-link reminders.                                     *)
(***************************************************************************)
ReminderTiers == {"first", "second", "final"}

TierRank(t) == IF t = "first" THEN 1 ELSE IF t = "second" THEN 2 ELSE 3

\* The tiers sent for a link, in the order of sending.
TiersSent(l) == SelectSeq(smsLog[l], LAMBDA e : e.tier \in ReminderTiers)

\* C13: for every link the tiers of the reminders sent are strictly
\* increasing in the order first, second, final (so each tier is sent at
\* most once), also when the tracking of a reminder fails after its SMS.
C13_TierMonotonic ==
  \A l \in LinkIds :
    \A i, j \in 1..Len(TiersSent(l)) :
      i < j => TierRank(TiersSent(l)[i].tier) < TierRank(TiersSent(l)[j].tier)

\* C14: no run of checkUnpaidLinks starts while another one is in progress.
C14_SweepsNeverOverlap ==
  ~(\E s, o \in SweepIds : s # o /\ SweepInProgress(s) /\ SweepInProgress(o))

\* The step in which run s sends an SMS for link l.
SweepSends(s, l) ==
  /\ sweep[s].pc = "send"
  /\ sweep[s].cur = l
  /\ smsLog'[l] # smsLog[l]

\* The step in which run s decides to send for a document of its result.
SweepDecides(s) == sweep[s].pc = "loop" /\ sweep'[s].pc = "send"

\* C15: a run sends a reminder only for a link that it decided to send for,
\* and it decides so only for a link that, in its query result, is active,
\* unpaid, has a phone number and an expiry date (if any) not in the past
\* at the time of the check; never for a link that was paid or expired when
\* the run started.
C15_SweepSendsOnlyOpenLinks ==
  [][/\ \A s \in SweepIds :
          SweepDecides(s) =>
            LET l == sweep'[s].cur
                d == sweep[s].snap[l]
            IN  /\ d.exists /\ d.status = "active"
                /\ ~d.paid
                /\ d.recipientPhone
                /\ ~(d.expiryDate.set /\ d.expiryDate.at < now)
                /\ l \notin sweep[s].closed
     /\ \A l \in LinkIds :
          smsLog'[l] # smsLog[l] => \E s \in SweepIds : SweepSends(s, l)]_vars

\* A run has visited a link that was paid when it started without sending
\* for it, and has sent for the other link.
C15_Witness ==
  \E s \in SweepIds :
    /\ "l1" \in sweep[s].closed
    /\ sweep[s].snap["l1"].paid
    /\ "l1" \in sweep[s].visited
    /\ sweep[s].sent = <<"l2">>

\* C16: a run that sends for a link created 100 hours ago or more with no
\* reminder recorded sends the tier first, and that SMS is the only one the
\* link has then received; a run never sends twice for the same link.
C16_FirstTierOncePerSweep ==
  [][/\ \A s \in SweepIds, l \in LinkIds :
          (/\ SweepSends(s, l)
           /\ ~sweep[s].snap[l].lastReminderSent.set
           /\ now - sweep[s].snap[l].createdAt.at >= 100
           /\ smsLog[l] = <<>>)
          => smsLog'[l] = <<[tier |-> "first", by |-> "sweep"]>>
     /\ \A s \in SweepIds :
          \A i, j \in 1..Len(sweep'[s].sent) :
            i # j => sweep'[s].sent[i] # sweep'[s].sent[j]]_vars

\* The link created 100 hours ago has received its one reminder, of tier
\* first, from a run that is now tracking it.
C16_Witness ==
  /\ smsLog["l1"] = <<[tier |-> "first", by |-> "sweep"]>>
  /\ \E s \in SweepIds : sweep[s].pc = "track" /\ sweep[s].cur = "l1"

\* The active documents of a query result.
ActiveIn(snap) == {l \in LinkIds : snap[l].exists /\ snap[l].status = "active"}

SeqRange(q) == {q[i] : i \in 1..Len(q)}

\* C17: when the sending or the tracking of a reminder fails, the run goes
\* on with the documents that remain; and when the run returns it has
\* visited every document of its query result, and the links it returns are
\* those whose reminder was sent and tracked.
C17_FailureIsolation ==
  [][\A s \in SweepIds :
       /\ (sweep[s].pc \in {"send", "track"} /\ sweep'[s] # sweep[s]) =>
            /\ sweep'[s].pc \in {"track", "loop"}
            /\ sweep'[s].todo = sweep[s].todo
       /\ (sweep[s].pc = "loop" /\ sweep'[s].pc = "idle") =>
            /\ sweep[s].todo = <<>>
            /\ sweep[s].visited = ActiveIn(sweep[s].snap)
            /\ {p.link : p \in SeqRange(sweep[s].processed)}
                 = SeqRange(sweep[s].sent) \ sweep[s].failed
            /\ \A p \in SeqRange(sweep[s].processed) : p \in reminderDocs]_vars

\* A run is about to return: the reminder of l1 failed, that of l2 was sent
\* and tracked afterwards.
C17_Witness ==
  \E s \in SweepIds :
    /\ sweep[s].pc = "loop"
    /\ sweep[s].todo = <<>>
    /\ "l1" \in sweep[s].failed
    /\ sweep[s].processed = <<[link |-> "l2", tier |-> "first"]>>

\* The link of the manual reminder is missing, not active, expired or paid.
ManualLinkClosed ==
  LET d == links[manual.linkId]
  IN  \/ ~d.exists
      \/ d.status # "active"
      \/ d.paid
      \/ (d.expiryDate.set /\ d.expiryDate.at < now)

\* C18: sendManualReminder, reading a link that is missing, not active,
\* expired or paid, returns success false and leaves the SMS sent, the link
\* documents and the reminders collection as they were; reading any other
\* link it goes on to send, whatever the age of the link and the time of its
\* last reminder.  A call that returned success false on its checks never
\* sent or wrote anything.
C18_ManualReminder ==
  [][(manual.pc = "read" /\ manual'.pc # "read") =>
       /\ ManualLinkClosed =>
            /\ manual'.pc = "done" /\ manual'.success = "false"
            /\ smsLog' = smsLog /\ links' = links /\ reminderDocs' = reminderDocs
       /\ (~ManualLinkClosed /\ manual'.snap.exists) => manual'.pc = "send"]_vars

\* A manual reminder for a paid link has been refused, and nothing was sent.
C18_Witness ==
  /\ manual.pc = "done"
  /\ manual.success = "false"
  /\ manual.snap.exists /\ manual.snap.paid
  /\ \A l \in LinkIds : smsLog[l] = <<>>
  /\ reminderDocs = {}

(***************************************************************************)
(* C19 - C20.  The query path.                                             *)
(***************************************************************************)
\* C19: no step of POST /query, whatever the request, the settings, the
\* token outcome and the response or error of the gateway, changes a
\* transaction document (status, receipt, callbackData) or the customer
\* document.
C19_QueryNeverMutates ==
  [][qry' # qry => (tx' = tx /\ cust' = cust /\ effects' = effects)]_vars

\* The gateway has told the query that the payment succeeded, the client
\* got isSuccessful, and the transaction is still pending.
C19_Witness ==
  /\ qry.pc = "done"
  /\ qry.reply.kind = "data"
  /\ qry.body.flag = "isSuccessful"
  /\ tx["t1"].status = "pending"

\* C20: a query answered by the gateway with a "transaction not found"
\* error gets a 200 with isCanceled; one answered with result code 4999 gets
\* isProcessing; one answered with result code 0, sent as a number or as a
\* string, gets isSuccessful.
C20_QueryEdgeCases ==
  (qry.pc = "done" /\ qry.reply.kind # "none") =>
    /\ (qry.reply.kind = "error"
        /\ qry.reply.errorCode \in {"500.001.1032", "404.001.03"})
         => (qry.code = "200" /\ qry.body.flag = "isCanceled")
    /\ (qry.reply.kind = "data" /\ qry.reply.rc \in {Num(4999), Str(4999)})
         => (qry.code = "200" /\ qry.body.flag = "isProcessing")
    /\ (qry.reply.kind = "data" /\ qry.reply.rc \in {Num(0), Str(0)})
         => (qry.code = "200" /\ qry.body.flag = "isSuccessful")

(***************************************************************************)
(* C21 - C30.  Reconciliation and initiation, further properties.          *)
(***************************************************************************)
\* The outcome a client reads from the answer of POST /query: the flag it
\* carries, and a failure when it carries none.
QueryOutcome(body) ==
  IF body.flag = "isSuccessful" THEN "success"
  ELSE IF body.flag = "isCanceled" THEN "canceled"
  ELSE IF body.flag = "isProcessing" THEN "pending"
  ELSE "failed"

\* C21: for every result code the gateway answers a query with, the outcome
\* reported by POST /query is the status the callback handler records for a
\* callback carrying that same code.
C21_QueryAgreesWithCallback ==
  (qry.pc = "done" /\ qry.reply.kind = "data") =>
    QueryOutcome(qry.body)
      = CallbackNewStatus([shape |-> "full", rc |-> qry.reply.rc,
                           receipt |-> "none"])

\* One callback has been delivered, a success for t1, and it was handled to
\* the end with no call failing.
SingleSuccessHandled ==
  /\ delivered = 1
  /\ ~faulted
  /\ \E r \in Slots :
       /\ req[r].pc = "done"
       /\ req[r].tx = "t1"
       /\ req[r].newStatus = "success"
       /\ req[r].err = "none"

MaxCount(stats) ==
  CHOOSE c \in {stats[i].count : i \in 1..Len(stats)} :
    \A i \in 1..Len(stats) : stats[i].count <= c

\* The first processor, in the order of paymentMethods, with that count.
FirstWithMaxCount(stats) ==
  LET i == CHOOSE k \in 1..Len(stats) :
             /\ stats[k].count = MaxCount(stats)
             /\ \A j \in 1..(k - 1) : stats[j].count < MaxCount(stats)
  IN  stats[i].processor

SideEffectPcs == {"custRead", "custWrite", "invoice", "notify"}

\* C25: once the handler has written the status success, no step of its side
\* effects, failing or not, changes the persisted status or ends the handler
\* otherwise than with the success acknowledgement; a failed invoice
\* generation leads on to the notifications, and the notifications step
\* attempts the SMS and, for a payer with an email address, the email,
\* whether or not the SMS failed.
C25_SideEffectFailuresIsolated ==
  [][\A r \in Slots :
       LET t == req[r].tx
       IN  /\ (req[r].pc \in SideEffectPcs /\ req'[r] # req[r]) =>
                /\ tx'[t].status = tx[t].status
                /\ req'[r].pc \in SideEffectPcs \cup {"done"}
                /\ req'[r].pc = "done" =>
                     (req'[r].resp = Ack200 /\ req'[r].err = "none")
           /\ (req[r].pc = "invoice" /\ req'[r] # req[r]) =>
                req'[r].pc \in {"custRead", "notify"}
           /\ (req[r].pc = "notify" /\ req'[r] # req[r]) =>
                /\ effects'[t].sms = effects[t].sms + 1
                /\ tx[t].payerEmail => effects'[t].email = effects[t].email + 1]_vars

\* A single success for t1, whose payer has an email address, was handled
\* with a side effect failing: the status is success, the SMS and the email
\* were attempted and the request was acknowledged.
C25_Witness ==
  /\ delivered = 1
  /\ faulted
  /\ tx["t1"].status = "success"
  /\ tx["t1"].payerEmail
  /\ ~tx["t1"].hasInvoice
  /\ effects["t1"].sms = 1
  /\ effects["t1"].email = 1
  /\ \E r \in Slots :
       req[r].pc = "done" /\ req[r].newStatus = "success" /\ req[r].resp = Ack200

\* The one delivery of the behaviour so far was a callback for the pending
\* transaction reporting the result code rc, handled with no call failing.
SingleCallbackHandled(rc) ==
  /\ delivered = 1
  /\ \E r \in Slots :
       /\ req[r].pc = "done"
       /\ req[r].err = "none"
       /\ req[r].sawStatus = "pending"
       /\ req[r].body.shape = "full"
       /\ req[r].body.rc = rc

\* C26: each of success, failed and canceled is reached as the persisted
\* status of a pending transaction by the delivery that reports it: the
\* callback of a payment (result code 0), of a failed payment (1) and of a
\* payment canceled by the user (1032).
C26_TerminalStatusesReached ==
  /\ SingleCallbackHandled(Num(0)) => tx["t1"].status = "success"
  /\ SingleCallbackHandled(Num(1)) => tx["t1"].status = "failed"
  /\ SingleCallbackHandled(Num(1032)) => tx["t1"].status = "canceled"

\* No callback and no webhook event persists the status canceled.
NeverCanceled == \A t \in TxIds : tx[t].status # "canceled"

\* Success and failed are both persisted by some delivery.
SuccessReached == tx["t1"].status = "success"
FailedReached == tx["t1"].status = "failed"

\* C27: once a transaction is recorded as success with a receipt number, or
\* as failed, no later delivery for it changes its receipt number, its
\* result description or its completion time.
C27_ReceiptWriteOnce ==
  [][\A t \in TxIds :
       (\/ tx[t].status = "success" /\ tx[t].mpesaReceiptNumber # "null"
        \/ tx[t].status = "failed") =>
         /\ tx'[t].mpesaReceiptNumber = tx[t].mpesaReceiptNumber
         /\ tx'[t].resultDescription = tx[t].resultDescription
         /\ tx'[t].completedAt = tx[t].completedAt]_vars

\* An amount that is zero, negative or not a number.
InvalidAmount(a) == a.nan \/ a.v <= 0

\* C28: a request to POST /stkpush, POST /paystack/initialize or POST
\* /paypal/create-order whose amount is zero, negative or not a number makes
\* no call to the gateway and is answered with a 400.
C28_InvalidAmountRejected ==
  (initReq.route \in {"stkpush", "paystack", "paypal"}
   /\ InvalidAmount(initReq.amount)) =>
    /\ outbound = <<>>
    /\ initReq.pc = "done" => initResp.code = "400"

\* C29: no step of POST /stkpush, POST /paystack/initialize or POST
\* /paypal/create-order, whatever the request and its outcome (accepted,
\* validation error, not configured, gateway error), changes a transaction
\* document.
C29_InitiationLeavesTransactions ==
  [][(initReq' # initReq \/ initResp' # initResp \/ outbound' # outbound)
       => tx' = tx]_vars

\* An STK push was refused by the gateway after the call went out, and the
\* transaction is still pending.
C29_Witness ==
  /\ initReq.pc = "done"
  /\ initReq.route = "stkpush"
  /\ initResp.code = "502"
  /\ outbound # <<>>
  /\ tx["t1"].status = "pending"

\* C30: a callback for an id that has no transaction document is answered
\* at once with the success acknowledgement, and its handling writes no
\* transaction and no customer document and runs no side effect.
C30_UnknownTransactionAcked ==
  [][\A r \in Slots :
       (req[r].pc \in {"idle", "done"} /\ req'[r] # req[r]
        /\ ~tx[req'[r].tx].exists) =>
         /\ req'[r].pc = "done"
         /\ req'[r].resp = Ack200
         /\ tx' = tx
         /\ cust' = cust
         /\ effects' = effects]_vars

\* A callback for the unknown id t2 has been acknowledged, and nothing
\* exists or has run for t2.
C30_Witness ==
  /\ \E r \in Slots :
       /\ req[r].pc = "done"
       /\ req[r].tx = "t2"
       /\ req[r].err = "none"
       /\ req[r].resp = Ack200
  /\ tx["t2"] = NoDoc
  /\ effects["t2"] = NoEffects

(***************************************************************************)
(* C31 - C40                                                               *)
(***************************************************************************)
\* C31: every callback request eventually receives its acknowledgement,
\* even when the SMS provider, the email transport or the invoice storage
\* never responds: a request that is being handled is eventually answered.
C31_CallbackEventuallyAcknowledged ==
  \A r \in Slots : (InProgress(r) ~> req[r].pc = "done")

\* C32: when the gateway rejects the merchant's credentials at the
\* access-token request, the STK-push response differs (in status code or
\* error class) from the response to a network or 5xx failure of the
\* access-token request, and the latter is the gateway error (502) that a
\* failed STK push request gets.
C32_CredentialErrorDistinct ==
  (initReq.pc = "done" /\ initReq.token \in {"rejected", "unreachable"}) =>
    /\ <<AccessTokenFailure("rejected").code, AccessTokenFailure("rejected").error>>
         # <<AccessTokenFailure("unreachable").code,
             AccessTokenFailure("unreachable").error>>
    /\ initReq.token = "unreachable" =>
         initResp.code = "502" /\ initResp.error = "gateway"

\* C33: in the M-Pesa callback the customer upsert, the invoice, the SMS and
\* the email run only when the computed status is success and only after
\* the status update has been written: a request is in the side-effect
\* section only with a computed status of success and no error, and every
\* step that dispatches or performs a side effect is the step of such a
\* request, either the update step that has just written the status or a
\* later step; a throwing update and a failed outcome run none of them.
C33_SideEffectsAfterPersistedSuccess ==
  [][/\ \A r \in Slots :
          req'[r].pc \in SideEffectPcs =>
            req'[r].newStatus = "success" /\ req'[r].err = "none"
     /\ (effects' # effects \/ cust' # cust
           \/ \E t \in TxIds : tx'[t].hasInvoice # tx[t].hasInvoice) =>
          \E r \in Slots :
            /\ req'[r] # req[r]
            /\ req[r].newStatus = "success"
            /\ req[r].pc \in SideEffectPcs \cup {"update"}
            /\ req[r].pc = "update" =>
                 /\ req'[r].pc = "custRead"
                 /\ tx'[req[r].tx] = CallbackUpdateFields(tx[req[r].tx], req[r])
                 /\ tx'[req[r].tx].status = "success"
     /\ \A r \in Slots :
          (req[r].pc = "update" /\ req'[r].pc = "done") =>
            (req[r].newStatus # "success" \/ req'[r].err = "updateDoc") /\ effects' = effects /\ cust' = cust
    ]_vars

\* A successful callback has run all its side effects and a failed one and
\* one whose update threw have been answered.
C33_Witness ==
  /\ effects["t1"].sms = 1 /\ effects["t1"].invoice = 1 /\ cust.exists
  /\ \E r \in Slots : req[r].pc = "done" /\ req[r].newStatus = "success"
                      /\ req[r].err = "none"
  /\ \E r \in Slots : req[r].pc = "done"
                      /\ (req[r].newStatus = "failed" \/ req[r].err = "updateDoc")

\* The tier of the claim for a link never reminded (by its document) and
\* created c hours ago, or last reminded with tier t, h hours ago.
C34_Tier(reminded, c, t, h) ==
  IF ~reminded /\ c >= 24 THEN "first"
  ELSE IF reminded /\ t = "first" /\ h >= 48 THEN "second"
  ELSE IF reminded /\ t = "second" /\ h >= 72 THEN "final"
  ELSE "none"

\* C34: the tier a sweep selects for an open link with a phone number is
\* first when no reminder was sent and the link is at least 24 hours old,
\* second when the last tier was first at least 48 hours ago, final when the
\* last tier was second at least 72 hours ago, and otherwise none: the run
\* starts a reminder exactly when that tier is not none, with that tier, and
\* never when the last tier is final.
C34_TierSelection ==
  [][\A s \in SweepIds :
       (sweep[s].pc = "loop" /\ sweep[s].todo # <<>> /\ sweep'[s] # sweep[s]) =>
         LET d == sweep[s].snap[Head(sweep[s].todo)]
             t == C34_Tier(d.lastReminderSent.set, now - d.createdAt.at,
                           d.lastReminderType, now - d.lastReminderSent.at)
         IN  (~Expired(d) /\ ~d.paid /\ d.recipientPhone /\ d.createdAt.set) =>
               /\ sweep'[s].pc = "send" <=> t # "none"
               /\ sweep'[s].pc = "send" => sweep'[s].tier = t
               /\ d.lastReminderType = "final" => sweep'[s].pc = "loop"]_vars

\* A run starts the final reminder of a link last reminded, with tier
\* second, exactly 72 hours ago.
C34_Witness ==
  \E s \in SweepIds :
    /\ sweep[s].pc = "send" /\ sweep[s].tier = "final"
    /\ sweep[s].snap[sweep[s].cur].lastReminderType = "second"
    /\ now - sweep[s].snap[sweep[s].cur].lastReminderSent.at = 72

\* C35: the callback handler writes status, receipt, result description and
\* the callbackData snapshot in one document update: every step that
\* changes one of these fields of a transaction is the update step of a
\* request for it and leaves all four as that request computed them, a
\* status of success then stands with the receipt delivered in that
\* callback, and no transaction is pending with a receipt stored.
C35_AtomicStatusUpdate ==
  [][\A t \in TxIds :
       /\ tx'[t].status = "pending" =>
            tx'[t].mpesaReceiptNumber = "null" /\ tx'[t].transID = "none"
       /\ (\/ tx'[t].status # tx[t].status
           \/ tx'[t].mpesaReceiptNumber # tx[t].mpesaReceiptNumber
           \/ tx'[t].resultDescription # tx[t].resultDescription
           \/ tx'[t].transID # tx[t].transID) =>
            \E r \in Slots :
              /\ req[r].pc = "update" /\ req[r].tx = t /\ req'[r] # req[r]
              /\ tx'[t].status = req[r].newStatus
              /\ tx'[t].mpesaReceiptNumber = req[r].receipt
              /\ tx'[t].resultDescription = req[r].resultDesc
              /\ tx'[t].transID = (IF req[r].receipt = "null" THEN ""
                                   ELSE req[r].receipt)
              /\ tx'[t].status = "success" =>
                   tx'[t].mpesaReceiptNumber =
                     (IF req[r].body.receipt = "none" THEN "null"
                      ELSE req[r].body.receipt)]_vars

\* The update of a successful callback with receipt R1 is written and the
\* request is generating the invoice.
C35_Witness ==
  \E r \in Slots :
    /\ req[r].pc = "invoice"
    /\ req[r].body.receipt = "R1"
    /\ tx[req[r].tx].status = "success"
    /\ tx[req[r].tx].mpesaReceiptNumber = "R1"
    /\ tx[req[r].tx].transID = "R1"
    /\ tx[req[r].tx].resultDescription = "Payment successful"

\* C36: in every state of a payment link whose reminders list is not empty,
\* lastReminderType is the type of the last entry of the list; and a
\* tracked reminder (tracked one at a time: the read and the update of the
\* link are one step) keeps the earlier entries and adds one.
C36_ReminderBookkeeping ==
  [][\A l \in LinkIds :
       /\ links'[l].reminders # <<>> =>
            links'[l].lastReminderType
              = links'[l].reminders[Len(links'[l].reminders)]
       /\ links'[l].reminders # links[l].reminders =>
            /\ Len(links'[l].reminders) = Len(links[l].reminders) + 1
            /\ SubSeq(links'[l].reminders, 1, Len(links[l].reminders))
                 = links[l].reminders
            /\ links'[l].lastReminderSent = Time(now)]_vars

\* Two manual reminders of different tiers have been tracked for l1.
C36_Witness ==
  /\ Len(links["l1"].reminders) = 2
  /\ links["l1"].reminders[1] # links["l1"].reminders[2]
  /\ manual.pc = "done" /\ manual.success = "true"

\* The reminders of tier t that went out for link l.
C37_Sent(log, t) == \E i \in 1..Len(log) : log[i].tier = t

\* C37: a reminder is recorded only if it was sent: a step that appends to
\* the reminders of a link, or changes its lastReminderSent or
\* lastReminderType, or adds a document to the reminders collection,
\* records a tier for which an SMS went out for that link; and every link
\* in the processed list of a run had an SMS of that tier sent by a sweep.
C37_RecordedOnlyIfSent ==
  [][/\ \A l \in LinkIds :
          (\/ links'[l].reminders # links[l].reminders
           \/ links'[l].lastReminderSent # links[l].lastReminderSent
           \/ links'[l].lastReminderType # links[l].lastReminderType) =>
            C37_Sent(smsLog[l], links'[l].lastReminderType)
     /\ \A d \in reminderDocs' \ reminderDocs : C37_Sent(smsLog[d.link], d.tier)
     /\ \A s \in SweepIds :
          \A p \in SeqRange(sweep'[s].processed) :
            [tier |-> p.tier, by |-> "sweep"] \in SeqRange(smsLog'[p.link])]_vars

\* C38: POST /validation/:orderId always answers ResultCode 0 "Accepted",
\* whether or not a transaction or order with the id exists and whether or
\* not storing fails, and no step of it changes the status, or any field
\* other than the validation fields, of a transaction or of the order.
C38_ValidationStatusNeutral ==
  [][val' # val =>
       /\ \A t \in TxIds :
            /\ tx'[t].status = tx[t].status
            /\ [tx'[t] EXCEPT !.validationStatus = tx[t].validationStatus] = tx[t]
       /\ order'.status = order.status
       /\ [order' EXCEPT !.validationStatus = order.validationStatus] = order
       /\ val'.pc = "done" => val'.resp = "200:ResultCode=0:Accepted"]_vars

\* Validations for the transaction t1 and for the order have been stored
\* and accepted, t1 keeping the status that a webhook gave it, and one for
\* an id of nothing has been accepted.
C38_Witness ==
  /\ val.pc = "done" /\ val.orderId = "x" /\ val.resp = "200:ResultCode=0:Accepted"
  /\ order.validationStatus = "received" /\ order.status = "pending"
  /\ tx["t1"].validationStatus = "received" /\ tx["t1"].status = "success"

\* Call i of /update-order-status sent both its email and its SMS.
C39_PairSent(i) == callLog[i].email /\ callLog[i].sms

\* C39: a call of /update-order-status with the status whose notifications
\* the order records as sent updates no document and sends nothing; and in
\* any sequence of calls, among consecutive calls with the same status at
\* most one sends both its email and its SMS.
C39_NotificationIdempotent ==
  [][/\ (/\ ordReq.pc = "read" /\ ordReq'.pc # "read"
         /\ ordReq.orderId = "o1"
         /\ order.notificationSent
         /\ order.lastNotificationStatus = ordReq.newStatus) =>
          ordReq'.pc = "done" /\ order' = order /\ callLog' = callLog
     /\ \A i, j \in 1..Len(callLog') :
          (/\ i < j
           /\ \A k \in i..j : callLog'[k].status = callLog'[i].status) =>
            ~(C39_PairSent(i)' /\ C39_PairSent(j)')]_vars

\* C40: when the email or the SMS of /update-order-status fails (and the
\* document store does not), the request ends with the new status
\* persisted, notificationSent false, the error message recorded, exactly
\* one error entry appended to notificationHistory, and an error response.
C40_NotificationFailureRecorded ==
  (ordReq.pc = "done" /\ ordReq.failed \in {"email", "sms"} /\ ordReq.storeOk) =>
    /\ order.status = ordReq.newStatus
    /\ ~order.notificationSent
    /\ order.notificationError = "message"
    /\ order.notificationHistory =
         Append(ordReq.orderData.notificationHistory,
                [status |-> ordReq.newStatus, kind |-> "error",
                 error |-> "message"])
    /\ ordReq.code = "500"

====
